---- MODULE Spec2Model ----
(***************************************************************************)
(* A model of fltk-accesskit: the tree collector with its exclusion set    *)
(* (src/src/lib.rs), the node builder (src/src/accessible.rs), the KeyUp   *)
(* publish path and the initial-tree pull, and the action dispatcher that  *)
(* marshals requests from the transport thread to the UI thread            *)
(* (src/src/fltk_adapter.rs, src/src/platform_adapter.rs).                 *)
(*                                                                         *)
(* A widget is identified by its address (as_widget_ptr); a NodeId is that *)
(* address.  0 stands for "no widget" (None).                              *)
(***************************************************************************)
EXTENDS Integers, Sequences, FiniteSets, TLC

\* ---------------------------------------------------------------- bounds
MaxPtr == 4        \* addresses 1..MaxPtr; the root window lives at RootPtr
MaxPubPtr == 3     \* addresses in use when the whole publish path is explored
MaxExcl == 1       \* exclusions registered on the builder before attach()
MaxReq == 3        \* action requests the transport passes to do_action

RootPtr == 1
Ptrs == 1..MaxPtr

\* The application's widgets: the widget created at address p has kind
\* KindAt(p); the root is a window.
KindCycle == <<"Group", "Button", "Group", "Input", "Window">>
KindAt(p) ==
    IF p = RootPtr THEN "Window" ELSE KindCycle[((p - 2) % Len(KindCycle)) + 1]
KindsUsed == {KindAt(p) : p \in Ptrs}

VARIABLES
    \* --- the toolkit's widget state (owned by the UI thread)
    live,        \* addresses of the widgets that exist
    kind,        \* kind[p]: concrete kind of the widget at p ("None" if none)
    kids,        \* kids[p]: the ordered children of the group at p
    par,         \* par[p]: the group p was added to (wid.parent()), 0 if none
    focus,       \* app::focus(): address of the focused widget, 0 if none
    w_val,       \* w_val[p]: boolean value of a check/toggle button
    w_clicks,    \* w_clicks[p]: number of times p's callback was invoked
    w_label,     \* w_label[p]: the label of p
    \* --- AccessibilityBuilder / AccessibilityContext
    phase,       \* "builder", "attached" after attach(), "running" once
                 \* run_with_accessibility has registered the handler;
                 \* "adapter" when the application constructed the Adapter
    ex_ptrs,     \* Excludes.ptrs
    ex_subtree,  \* Excludes.subtree_ptrs
    ex_preds,    \* Excludes.preds: a kind for exclude_type, a closure for exclude_if
    wids,        \* FltkActivationHandler.wids
    win_id,      \* FltkActivationHandler.win_id
    \* --- the transport and its consumer
    active,      \* the transport reports an active consumer
    c_nodes,     \* the consumer's cumulative node set: id -> node
    c_root,      \* the consumer's designated root (0: none yet)
    c_focus,     \* the consumer's focus id
    \* --- the action dispatcher
    queue,       \* the app::channel between do_action and the drain loop
    awake,       \* a wake of the UI thread is pending
    awake_cb,    \* the handler given to app::awake_callback: "none", then
                 \* "pending" once registered, "spent" once it has been called
    ui_pc,       \* "idle" or "draining" (inside the awake callback)
    t_pc,        \* transport thread: "idle" or "sent" (between send and awake)
    \* --- history
    snap,        \* the node list built by the step just taken, if it built one
    offered,     \* the TreeUpdate the step just taken handed to update_if_active
    attachIds,   \* widgets that had to be in the tree when attach() ran
    nsent,       \* requests passed to do_action so far
    napplied,    \* requests applied by the drain loop so far
    sentAtWake,  \* nsent when the current/last drain pass started
    queuedAtWake, \* requests waiting when the current/last drain pass started
    gen,         \* gen[p]: widgets deleted at address p while a queued
                 \* request was addressed to them
    \* --- one widget under the arms of the drain loop
    tw,          \* the widget a request is applied to: its kind and state
    tw_before,   \* tw before the request applied last
    areq,        \* the request applied last
    \* --- one widget under the node builder
    bw,          \* the widget handed to the builder: its kind and properties
    bnodes,      \* the nodes the builder call taken last returned
    \* --- the platform adapter and the RefCells of the UI thread
    backend,     \* the transport the crate is built for
    raised,      \* the update whose events the last update_if_active raised
    held,        \* the RefCells with a mutable borrow alive
    last         \* the operation that took the last step

widgetVars == <<live, kind, kids, par, focus, w_val, w_clicks, w_label>>
builderVars == <<phase, ex_ptrs, ex_subtree, ex_preds, wids, win_id>>
consumerVars == <<active, c_nodes, c_root, c_focus>>
dispatchVars == <<queue, awake, awake_cb, ui_pc, t_pc>>
counterVars == <<nsent, napplied, sentAtWake, queuedAtWake>>
historyVars == <<snap, offered, attachIds, counterVars, gen, last>>
armVars == <<tw, tw_before, areq>>
buildVars == <<bw, bnodes>>
platVars == <<backend, raised, held>>
vars == <<widgetVars, builderVars, consumerVars, dispatchVars, historyVars,
          armVars, buildVars, platVars>>

NoUpdate == [nodes |-> <<>>, tree |-> 0, focus |-> 0]
\* No widget is under the arms, no request was applied.
NoArm == [kind |-> "None"]
NoRequest == [action |-> "None"]

\* The builds of the crate: accesskit_windows and accesskit_macos, which
\* subclass the native window, and accesskit_unix, which talks to a session
\* bus.
Backends == {"windows", "macos", "unix"}
Subclassing(b) == b \in {"windows", "macos"}
\* The platform adapter as constructed for backend b: nothing delivered yet,
\* no RefCell borrowed.
PlatformInit(b) == backend = b /\ raised = NoUpdate /\ held = {}

\* ------------------------------------------------------- sequence helpers
Range(s) == {s[i] : i \in 1..Len(s)}
InSeq(x, s) == \E i \in 1..Len(s) : s[i] = x
RemoveFrom(s, x) == SelectSeq(s, LAMBDA y : y # x)
Ids(nodes) == {nodes[i].id : i \in 1..Len(nodes)}
RECURSIVE MapIds(_)
MapIds(nodes) ==
    IF nodes = <<>> THEN <<>> ELSE <<Head(nodes).id>> \o MapIds(Tail(nodes))

\* ------------------------------------------------------ toolkit queries
\* child.as_group(): the widget is of a class derived from the toolkit's
\* group class.  Besides the layout groups and the window these are the text
\* displays, the spinner, the table and the tree, which hold their
\* scrollbars or their input and buttons as children.
IsGroup(k) ==
    k \in {"Group", "Window", "Flex", "Scroll", "TextDisplay", "TextEditor",
           "SimpleTerminal", "Spinner", "Table", "Tree"}
\* utils::is_ptr_of::<T>(ptr): a dynamic type test, true for T and subtypes.
\* The toolkit's widget classes derive from one another: the typed inputs
\* and the outputs from Input, the check and toggle buttons from Button.
SuperKinds(k) ==
    CASE k \in {"IntInput", "FloatInput", "MultilineInput", "Output"} -> {"Input"}
      [] k = "MultilineOutput" -> {"Output", "Input"}
      [] k \in {"CheckButton", "ToggleButton", "RadioButton", "RadioRoundButton"}
            -> {"Button"}
      [] k \in {"TextEditor", "SimpleTerminal"} -> {"TextDisplay"}
      [] k \in {"NiceSlider", "ValueSlider", "FillSlider", "HorSlider",
                "HorFillSlider", "HorNiceSlider", "HorValueSlider", "Scrollbar"}
            -> {"Slider"}
      [] k \in {"FillDial", "LineDial"} -> {"Dial"}
      [] k = "SysMenuBar" -> {"MenuBar"}
      [] OTHER -> {}
IsPtrOf(k, T) == k = T \/ (T = "Group" /\ IsGroup(k)) \/ T \in SuperKinds(k)
\* The groups that contain w, directly or not (wid.parent(), repeated).
RECURSIVE AncestorsOf(_)
AncestorsOf(w) ==
    IF par[w] = 0 THEN {} ELSE {par[w]} \cup AncestorsOf(par[w])
UnderRoot(w) == w \in live /\ RootPtr \in AncestorsOf(w)
DescendantsOf(g) == {w \in live : g \in AncestorsOf(w)}

\* ------------------------------------------------------ identity scheme
\* The id of a widget is its address, cast to an integer each time it is
\* needed; no table is kept.
\* node_widget_common: NodeId(wid.as_widget_ptr() as usize as u64)
NodeIdLowBit(p) == p % 2
NodeIdOf(p) == p
\* The focus id of an update: NodeId(focused.as_widget_ptr() as _)
FocusIdOf(p) == p
\* The drain loop: Widget::from_widget_ptr(req.target.0 as _)
WidgetAt(id) == id

\* ------------------------------------------------------------ Excludes
\* The labels the application gives its widgets, and the closures it hands
\* to exclude_if: |w| w.label() == "skip", a predicate over state of the
\* widget that the application can change at any time.
Labels == {"keep", "skip"}
IfPreds == {"label == skip"}
\* A registered predicate called on the widget w: an exclude_type predicate
\* is the type test is_ptr_of::<T>, an exclude_if predicate the closure.
PredHolds(P, w) ==
    IF P \in IfPreds THEN w_label[w] = "skip" ELSE IsPtrOf(kind[w], P)
\* Excludes::matches: identity first, then every registered predicate.
MatchesPtrOnly(w) == w \in ex_ptrs
Matches(w) ==
    \/ w \in ex_ptrs
    \/ \E P \in ex_preds : PredHolds(P, w)
\* Excludes::skip_subtree
SkipNothing(w) == FALSE
SkipSubtree(w) == w \in ex_subtree

\* --------------------------------------------------------- node builder
\* The types that implement Accessible.
ImplKinds ==
    {"Button", "RadioButton", "RadioRoundButton", "CheckButton", "ToggleButton",
     "Window", "Frame", "Output", "Input", "IntInput", "FloatInput",
     "MultilineInput", "MultilineOutput", "TextDisplay", "TextEditor",
     "SimpleTerminal", "Slider", "NiceSlider", "ValueSlider", "FillSlider",
     "HorSlider", "HorFillSlider", "HorNiceSlider", "HorValueSlider", "Dial",
     "FillDial", "LineDial", "Counter", "Roller", "ValueInput", "ValueOutput",
     "Scrollbar", "MenuBar", "Choice", "Table", "Tree", "Scroll", "Flex",
     "Group", "Progress"}
\* Node::new(Role::..) in T's make_node; a frame is an image or a label.
MakeNodeRole(T, image) ==
    CASE T \in {"Button", "ToggleButton"} -> "Button"
      [] T \in {"RadioButton", "RadioRoundButton"} -> "RadioButton"
      [] T = "CheckButton" -> "CheckBox"
      [] T = "Window" -> "Window"
      [] T = "Frame" -> IF image THEN "Image" ELSE "Label"
      [] T = "Output" -> "Label"
      [] T \in {"Input", "IntInput", "FloatInput"} -> "TextInput"
      [] T \in {"MultilineInput", "TextEditor"} -> "MultilineTextInput"
      [] T \in {"MultilineOutput", "TextDisplay"} -> "Paragraph"
      [] T = "SimpleTerminal" -> "Terminal"
      [] T \in {"Slider", "NiceSlider", "ValueSlider", "FillSlider", "HorSlider",
                "HorFillSlider", "HorNiceSlider", "HorValueSlider", "Dial",
                "FillDial", "LineDial", "Counter", "Roller", "ValueInput",
                "ValueOutput"} -> "Slider"
      [] T = "Scrollbar" -> "ScrollBar"
      [] T = "MenuBar" -> "MenuBar"
      [] T = "Choice" -> "MenuListPopup"
      [] T = "Table" -> "Table"
      [] T = "Tree" -> "Tree"
      [] T = "Scroll" -> "ScrollView"
      [] T \in {"Flex", "Group"} -> "Group"
      [] T = "Progress" -> "ProgressIndicator"
      [] OTHER -> "None"
\* The builder.add_action calls of T's make_node.
MakeNodeActions(T) ==
    CASE T \in {"Button", "RadioButton", "RadioRoundButton", "CheckButton",
                "ToggleButton", "SimpleTerminal"} -> {"Focus"}
      [] T \in {"Input", "IntInput", "FloatInput", "MultilineInput", "TextEditor"}
            -> {"Focus", "SetValue"}
      [] T \in {"Slider", "NiceSlider", "ValueSlider", "FillSlider", "HorSlider",
                "HorFillSlider", "HorNiceSlider", "HorValueSlider", "Dial",
                "FillDial", "LineDial", "Counter", "Roller", "ValueInput",
                "ValueOutput"} -> {"SetValue"}
      [] T = "Scroll" -> {"ScrollDown", "ScrollUp"}
      [] OTHER -> {}
\* The types node_for_widget tries, in its order.
TryTypes ==
    <<"RadioButton", "RadioRoundButton", "CheckButton", "ToggleButton", "Button",
      "IntInput", "FloatInput", "MultilineInput", "Input", "TextEditor",
      "MultilineOutput", "Output", "TextDisplay", "Frame", "Window">>
\* The first try_type! that matches a widget of kind k, "None" if none does.
FirstTry(k) ==
    IF \E i \in 1..Len(TryTypes) : IsPtrOf(k, TryTypes[i])
    THEN TryTypes[CHOOSE i \in 1..Len(TryTypes) :
                     /\ IsPtrOf(k, TryTypes[i])
                     /\ \A j \in 1..(i - 1) : ~IsPtrOf(k, TryTypes[j])]
    ELSE "None"
\* The role of the node node_for_widget builds for a widget of kind k
\* (a frame without an image).
RoleOf(k) == MakeNodeRole(FirstTry(k), FALSE)
\* node_for_widget returns Some only for the kinds its try_type! list matches.
Recognized(k) == FirstTry(k) # "None"
\* make_node via node_widget_common: the id is the address, every child id
\* passed in is pushed in order.
MakeNode(w, children) ==
    [id |-> NodeIdOf(w), role |-> RoleOf(kind[w]), children |-> children]
NodeForWidget(w, children) ==
    IF Recognized(kind[w]) THEN <<MakeNode(w, children)>> ELSE <<>>

\* ------------------------------------------------------- tree collector
\* walk_group, per child: a node is pushed unless the child is skipped.
ChildEmits(child) == ~SkipSubtree(child) /\ ~Matches(child)
\* walk_group, per child: the walk recurses into a group unless the child
\* took one of the two `continue`s.
ChildDescendsIfRecognized(child) ==
    ~SkipSubtree(child) /\ ~Matches(child) /\ IsGroup(kind[child])
       /\ Recognized(kind[child])
ChildDescends(child) ==
    ~SkipSubtree(child) /\ ~Matches(child) /\ IsGroup(kind[child])
RECURSIVE WalkGroup(_, _)
WalkGroup(grp, i) ==
    IF i > Len(kids[grp]) THEN <<>>
    ELSE LET child == kids[grp][i] IN
         (IF ChildEmits(child) THEN NodeForWidget(child, <<>>) ELSE <<>>)
         \o (IF ChildDescends(child) THEN WalkGroup(child, 1) ELSE <<>>)
         \o WalkGroup(grp, i + 1)
\* collect_nodes: the root is a window, hence a group.
CollectNodes == IF IsGroup(kind[RootPtr]) THEN WalkGroup(RootPtr, 1) ELSE <<>>
\* The children handed to the root's make_node: the ids of all collected nodes.
RootChildrenAllKids(nodes) == kids[RootPtr]
RootChildren(nodes) == MapIds(nodes)
\* AccessibilityContext::collect (and the same lines of attach()).
CollectFrom(nodes) == Append(nodes, MakeNode(RootPtr, RootChildren(nodes)))
Collect == CollectFrom(CollectNodes)

\* ------------------------------------------------------------ transport
\* FltkActivationHandler::request_initial_tree: the stored node list, the
\* window as the root, and the focused widget's id or else the window's.
\* The same call when app::focus() answers f.
RequestInitialTreeSeeing(f) ==
    [nodes |-> wids,
     tree |-> win_id,
     focus |-> IF f # 0 THEN FocusIdOf(f) ELSE win_id]
RequestInitialTree ==
    [nodes |-> wids,
     tree |-> win_id,
     focus |-> IF focus # 0 THEN FocusIdOf(focus) ELSE win_id]
\* The KeyUp arm of the handler run_with_accessibility registers: the update
\* handed to update_if_active, NoUpdate when app::focus() is None.
KeyUpOffer(nodes) ==
    IF focus # 0
    THEN [nodes |-> nodes, tree |-> 0, focus |-> FocusIdOf(focus)]
    ELSE NoUpdate
\* Adapter::update_if_active: the updater runs, and its result is delivered,
\* only when the platform adapter has an active consumer.
DeliversAlways == TRUE
Delivers == active
\* platform_adapter::Adapter::update_if_active(|| u): the update whose
\* events the call raises.  The subclassing adapters return the events of
\* an update they delivered, None when they skipped it, and the events are
\* raised; the session adapter pushes the update and returns nothing.
RaisesOnEveryBackend(u) == IF Delivers THEN u ELSE NoUpdate
Raises(u) == IF Subclassing(backend) /\ Delivers THEN u ELSE NoUpdate
\* RefCell::borrow_mut succeeds when no mutable borrow of the cell is alive
\* and panics otherwise.
BorrowMut(cell) == cell \notin held
\* The consumer's side of a TreeUpdate: nodes are replaced by id, and a node
\* that the root no longer leads to is removed.
NodeOf(nodes, id) ==
    LET i == CHOOSE j \in 1..Len(nodes) :
                 nodes[j].id = id /\ \A l \in (j + 1)..Len(nodes) : nodes[l].id # id
    IN [role |-> nodes[i].role, children |-> nodes[i].children]
MergeUpdate(old, u) ==
    [id \in (DOMAIN old) \cup Ids(u.nodes) |->
        IF id \in Ids(u.nodes) THEN NodeOf(u.nodes, id) ELSE old[id]]
\* The ids that the child lists of nodes lead to from the ids in front.
RECURSIVE ReachFrom(_, _, _)
ReachFrom(nodes, front, seen) ==
    IF front \subseteq seen THEN seen
    ELSE ReachFrom(nodes,
                   UNION {Range(nodes[id].children) \cap DOMAIN nodes :
                             id \in front \ seen},
                   seen \cup front)
\* The consumer keeps the nodes its root still leads to and drops the rest.
KeepReachable(nodes, root) ==
    [id \in ReachFrom(nodes, {root} \cap DOMAIN nodes, {}) |-> nodes[id]]
\* A TreeUpdate applied to the consumer's tree old with root root: a tree id
\* in the update names the root from then on.
ApplyUpdate(old, root, u) ==
    KeepReachable(MergeUpdate(old, u), IF u.tree # 0 THEN u.tree ELSE root)

\* ------------------------------------------- vocabulary of the properties
\* The widget is marked "exclude subtree".
MarkedSubtree(w) == w \in ex_subtree
\* The widget matches an individual exclusion: by identity, or because a
\* registered predicate is true of it.
MarkedIndividually(w) ==
    w \in ex_ptrs \/ \E P \in ex_preds : PredHolds(P, w)
\* w and the widgets that contain it, up to but not including the root.
SelfAndAncestorsBelowRoot(w) == ({w} \cup AncestorsOf(w)) \ {RootPtr}
\* The kinds that have a node mapping in the collector.
HasNodeMapping(k) == k \in {"Button", "Input", "Window"}
\* The node set as the exclusion rules are documented: a recognized widget
\* beneath the root that is not individually excluded and not inside (or
\* itself) an excluded subtree.
DocumentedIds ==
    {w \in live : /\ UnderRoot(w)
                  /\ HasNodeMapping(kind[w])
                  /\ ~MarkedIndividually(w)
                  /\ \A a \in SelfAndAncestorsBelowRoot(w) : ~MarkedSubtree(a)}
\* The node set when every exclusion prunes the branch: a recognized widget
\* beneath the root with no exclusion of either sort on it or on a widget
\* that contains it.
ExpectedIds ==
    {w \in live : /\ UnderRoot(w)
                  /\ HasNodeMapping(kind[w])
                  /\ \A a \in SelfAndAncestorsBelowRoot(w) :
                        ~MarkedIndividually(a) /\ ~MarkedSubtree(a)}

\* ----------------------------------------------------------------- Init
InitOn(b) ==
    /\ live = {RootPtr}
    /\ kind = [p \in Ptrs |-> IF p = RootPtr THEN KindAt(p) ELSE "None"]
    /\ kids = [p \in Ptrs |-> <<>>]
    /\ par = [p \in Ptrs |-> 0]
    /\ focus = 0
    /\ w_val = [p \in Ptrs |-> FALSE]
    /\ w_clicks = [p \in Ptrs |-> 0]
    /\ w_label = [p \in Ptrs |-> "keep"]
    /\ phase = "builder"
    /\ ex_ptrs = {} /\ ex_subtree = {} /\ ex_preds = {}
    /\ wids = <<>> /\ win_id = 0
    /\ active = FALSE /\ c_nodes = <<>> /\ c_root = 0 /\ c_focus = 0
    /\ queue = <<>> /\ awake = FALSE /\ awake_cb = "none"
    /\ ui_pc = "idle" /\ t_pc = "idle"
    /\ snap = <<>> /\ offered = NoUpdate /\ attachIds = {}
    /\ nsent = 0 /\ napplied = 0 /\ sentAtWake = 0 /\ queuedAtWake = 0
    /\ gen = [p \in Ptrs |-> 0]
    /\ tw = NoArm /\ tw_before = NoArm /\ areq = NoRequest
    /\ bw = NoArm /\ bnodes = <<>>
    /\ PlatformInit(b)
    /\ last = "Init"
\* The build for the session/socket backend.
Init == InitOn("unix")

\* snap and offered describe the step just taken: a step that builds no node
\* list and offers no update clears them.
NoSnapshot == snap' = <<>> /\ offered' = NoUpdate

\* ------------------------------------------------- the application's UI
\* The widget at address p is created and added at the end of group g.
AddWidget(p, g) ==
    /\ p \in Ptrs \ live
    /\ g \in live /\ IsGroup(kind[g])
    /\ live' = live \cup {p}
    /\ kind' = [kind EXCEPT ![p] = KindAt(p)]
    /\ kids' = [kids EXCEPT ![g] = Append(@, p)]
    /\ par' = [par EXCEPT ![p] = g]
    /\ last' = "Other" /\ NoSnapshot
    /\ UNCHANGED <<focus, w_val, w_clicks, w_label, builderVars, consumerVars,
                   dispatchVars, attachIds, gen, armVars, buildVars, platVars, counterVars>>

\* A queued request was issued for the widget now at address p.
Referenced(p) ==
    \E i \in 1..Len(queue) : queue[i].target = p /\ queue[i].inc = gen[p]
\* A widget is deleted, and with it everything it contains; the toolkit
\* drops the focus of a deleted widget.  gen counts, per address, the
\* deleted widgets a queued request was still addressed to.
RemoveWidget(w) ==
    /\ w \in live /\ w # RootPtr
    /\ \E gone \in {{w} \cup DescendantsOf(w)} :
          /\ live' = live \ gone
          /\ par' = [p \in Ptrs |-> IF p \in gone THEN 0 ELSE par[p]]
          /\ kind' = [p \in Ptrs |-> IF p \in gone THEN "None" ELSE kind[p]]
          /\ kids' = [p \in Ptrs |->
                        IF p \in gone THEN <<>> ELSE RemoveFrom(kids[p], w)]
          /\ focus' = IF focus \in gone THEN 0 ELSE focus
          /\ w_val' = [p \in Ptrs |-> IF p \in gone THEN FALSE ELSE w_val[p]]
          /\ w_clicks' = [p \in Ptrs |-> IF p \in gone THEN 0 ELSE w_clicks[p]]
          /\ w_label' = [p \in Ptrs |-> IF p \in gone THEN "keep" ELSE w_label[p]]
          /\ gen' = [p \in Ptrs |-> IF p \in gone /\ Referenced(p)
                                     THEN gen[p] + 1 ELSE gen[p]]
    /\ last' = "Other" /\ NoSnapshot
    /\ UNCHANGED <<builderVars, consumerVars, dispatchVars, attachIds, armVars, buildVars, platVars,
                   counterVars>>

\* The user moves the input focus to a widget, or away from every widget.
SetFocus(w) ==
    /\ w \in live \cup {0} /\ w # focus
    /\ focus' = w
    /\ last' = "Other" /\ NoSnapshot
    /\ UNCHANGED <<live, kind, kids, par, w_val, w_clicks, w_label, builderVars,
                   consumerVars, dispatchVars, attachIds, gen, armVars, buildVars, platVars, counterVars>>

\* The application changes the label of a widget (WidgetExt::set_label).
SetLabel(w, l) ==
    /\ w \in live /\ l \in Labels \ {w_label[w]}
    /\ w_label' = [w_label EXCEPT ![w] = l]
    /\ last' = "Other" /\ NoSnapshot
    /\ UNCHANGED <<live, kind, kids, par, focus, w_val, w_clicks, builderVars,
                   consumerVars, dispatchVars, attachIds, gen, armVars, buildVars, platVars, counterVars>>

\* The state of the widgets that code of the library can change.
WidgetState == [focus |-> focus, val |-> w_val, clicks |-> w_clicks]
SetWidgetState(st) ==
    /\ focus' = st.focus /\ w_val' = st.val /\ w_clicks' = st.clicks
    /\ UNCHANGED <<live, kind, kids, par, w_label>>
\* The UI state a collection leaves: walk_group, node_for_widget,
\* node_widget_common and the make_node impls call getters of the widget
\* only; every setter they call is one of the node under construction.
CollectTakingFocus == [WidgetState EXCEPT !.focus = RootPtr]
AfterCollect == WidgetState

\* ------------------------------------------------- AccessibilityBuilder
NumExcl == Cardinality(ex_ptrs) + Cardinality(ex_subtree) + Cardinality(ex_preds)
BuilderCall ==
    /\ phase = "builder" /\ NumExcl < MaxExcl
    /\ last' = "Other"
    /\ UNCHANGED <<widgetVars, phase, wids, win_id, consumerVars,
                   dispatchVars, snap, offered, attachIds, gen, armVars, buildVars, platVars, counterVars>>
\* AccessibilityBuilder::exclude_widget
ExcludeWidget(w) ==
    /\ BuilderCall /\ w \in live \ ex_ptrs
    /\ ex_ptrs' = ex_ptrs \cup {w}
    /\ UNCHANGED <<ex_subtree, ex_preds>>
\* AccessibilityBuilder::exclude_subtree
ExcludeSubtreeOf(w) ==
    /\ BuilderCall /\ w \in live \ ex_subtree
    /\ ex_subtree' = ex_subtree \cup {w}
    /\ UNCHANGED <<ex_ptrs, ex_preds>>
\* AccessibilityBuilder::exclude_type
ExcludeType(T) ==
    /\ BuilderCall /\ T \notin ex_preds
    /\ ex_preds' = ex_preds \cup {T}
    /\ UNCHANGED <<ex_ptrs, ex_subtree>>
\* AccessibilityBuilder::exclude_if
ExcludeIf(P) ==
    /\ BuilderCall /\ P \in IfPreds \ ex_preds
    /\ ex_preds' = ex_preds \cup {P}
    /\ UNCHANGED <<ex_ptrs, ex_subtree>>

\* Adapter::new: with_action_handler constructs the platform adapter and
\* registers the resize callback; the drain loop is handed to
\* app::awake_callback, which queues it for the UI thread's next message
\* cycle and wakes that thread.
NewAdapter == awake_cb' = "pending" /\ awake' = TRUE
\* Adapter::with_action_handler alone: the requests go to the handler given,
\* no drain loop is registered.
NewAdapterWithActionHandler == UNCHANGED <<awake_cb, awake>>

\* AccessibilityBuilder::attach: the node list is collected and stored in
\* the activation handler that Adapter::new is given.  The root has no
\* KeyUp handler yet.
Attach ==
    /\ phase = "builder"
    /\ phase' = "attached"
    /\ \E nodes \in {Collect} : wids' = nodes /\ snap' = nodes
    /\ win_id' = RootPtr
    /\ NewAdapter
    /\ offered' = NoUpdate
    /\ attachIds' = ExpectedIds
    /\ last' = "Attach"
    /\ SetWidgetState(AfterCollect)
    /\ UNCHANGED <<ex_ptrs, ex_subtree, ex_preds, consumerVars,
                   queue, ui_pc, t_pc, counterVars, gen, armVars, buildVars, platVars>>

\* AccessibleApp::run_with_accessibility: the context moves into the closure
\* that root.handle registers, and the event loop runs.
RunWithAccessibility ==
    /\ phase = "attached"
    /\ phase' = "running"
    /\ last' = "Other" /\ NoSnapshot
    /\ UNCHANGED <<widgetVars, ex_ptrs, ex_subtree, ex_preds, wids, win_id,
                   consumerVars, dispatchVars, attachIds, gen, armVars,
                   buildVars, platVars, counterVars>>

\* Adapter::update_if_active(|| u): the platform adapter is borrowed
\* mutably for the length of the call; the update reaches the consumer when
\* one is active.
UpdateIfActive(u) ==
    IF ~BorrowMut("adapter")
    THEN /\ ui_pc' = "panicked"
         /\ raised' = NoUpdate
         /\ UNCHANGED <<c_nodes, c_focus, c_root>>
    ELSE /\ ui_pc' = ui_pc
         /\ raised' = Raises(u)
         /\ IF Delivers
            THEN /\ c_nodes' = ApplyUpdate(c_nodes, c_root, u)
                 /\ c_focus' = u.focus
                 /\ c_root' = IF u.tree # 0 THEN u.tree ELSE c_root
            ELSE UNCHANGED <<c_nodes, c_focus, c_root>>
\* The handler's KeyUp arm: a fresh collection, offered to
\* update_if_active when a widget has the focus.
KeyUpHandler ==
    /\ \E nodes \in {Collect} : \E u \in {KeyUpOffer(nodes)} :
          /\ snap' = nodes
          /\ offered' = u
          /\ IF u # NoUpdate
             THEN UpdateIfActive(u)
             ELSE /\ ui_pc' = ui_pc
                  /\ raised' = NoUpdate
                  /\ UNCHANGED <<c_nodes, c_focus, c_root>>
    /\ last' = "KeyUp"
    /\ SetWidgetState(AfterCollect)
\* The root has no handler of the library: the event changes nothing.
NoHandler ==
    /\ last' = "Other" /\ NoSnapshot
    /\ UNCHANGED <<widgetVars, ui_pc, raised, c_nodes, c_focus, c_root>>
\* An event reaches the root window.  The handler that
\* run_with_accessibility registers takes Event::KeyUp and passes every
\* other event on; before that call the root has no handler of the library.
Events == {"KeyUp", "KeyDown", "Push"}
HandleEvent(ev) ==
    IF phase = "running" /\ ev = "KeyUp" THEN KeyUpHandler ELSE NoHandler
KeyUp ==
    /\ HandleEvent("KeyUp")
    /\ UNCHANGED <<builderVars, active, queue, awake, awake_cb, t_pc,
                   attachIds, gen, armVars, buildVars, backend, held,
                   counterVars>>

\* ----------------------------------- the Adapter used by the application
\* The application may leave the builder aside and construct the Adapter
\* itself, with an activation handler of its own, and publish the updates
\* it builds.  A tree of the application: the window alone, or the window
\* with a button.
AppWindow(children) == [id |-> RootPtr, role |-> "Window", children |-> children]
AppButton == [id |-> 2, role |-> "Button", children |-> <<>>]
AppTrees ==
    {[nodes |-> <<AppWindow(<<>>)>>, focus |-> RootPtr],
     [nodes |-> <<AppButton, AppWindow(<<2>>)>>, focus |-> 2]}
\* What the application's request_initial_tree returns, and the updates it
\* hands to update_if_active.
AppInitialTrees ==
    {[nodes |-> t.nodes, tree |-> RootPtr, focus |-> t.focus] : t \in AppTrees}
AppUpdates ==
    {[nodes |-> t.nodes, tree |-> 0, focus |-> t.focus] : t \in AppTrees}
\* The adapter is constructed by the application: no node list is
\* collected, no handler is given to the root.
AdapterCall(name) ==
    /\ phase = "builder"
    /\ phase' = "adapter"
    /\ last' = name /\ NoSnapshot
    /\ UNCHANGED <<widgetVars, ex_ptrs, ex_subtree, ex_preds, wids, win_id,
                   consumerVars, queue, ui_pc, t_pc, attachIds, gen, armVars,
                   buildVars, platVars, counterVars>>
\* Adapter::new(&window, source), called by the application.
AdapterNew == AdapterCall("AdapterNew") /\ NewAdapter
\* Adapter::with_action_handler(&window, source, action_handler).
AdapterWithActionHandler ==
    AdapterCall("WithActionHandler") /\ NewAdapterWithActionHandler
\* Adapter::update_if_active(|| u), called by the application.
AdapterUpdateIfActive(u) ==
    /\ phase = "adapter"
    /\ offered' = u /\ snap' = <<>>
    /\ UpdateIfActive(u)
    /\ last' = "UpdateIfActive"
    /\ UNCHANGED <<widgetVars, builderVars, active, queue, awake, awake_cb,
                   t_pc, attachIds, gen, armVars, buildVars, backend, held,
                   counterVars>>
\* Adapter::on_event(&window, &event): app::handle_raw sends the event to
\* the window.
AdapterOnEvent(ev) ==
    /\ phase = "adapter"
    /\ HandleEvent(ev)
    /\ UNCHANGED <<builderVars, active, queue, awake, awake_cb, t_pc,
                   attachIds, gen, armVars, buildVars, backend, held,
                   counterVars>>

\* ------------------------------------------------------------ transport
\* The trees the activation handler may return: the library's handler
\* returns the stored node list, the application's what it chooses.
InitialTrees ==
    IF phase = "adapter" THEN AppInitialTrees ELSE {RequestInitialTree}
\* A consumer attaches: the transport pulls the initial tree and builds its
\* tree from it.
Activate ==
    /\ phase # "builder" /\ ~active
    /\ active' = TRUE
    /\ \E u \in InitialTrees :
          /\ c_nodes' = ApplyUpdate(<<>>, 0, u)
          /\ c_root' = u.tree
          /\ c_focus' = u.focus
    /\ last' = "Activate" /\ NoSnapshot
    /\ UNCHANGED <<widgetVars, builderVars, dispatchVars, attachIds, gen, armVars, buildVars, platVars,
                   counterVars>>

\* The consumer detaches (FltkDeactivationHandler does nothing).
Deactivate ==
    /\ active
    /\ active' = FALSE
    /\ last' = "Other" /\ NoSnapshot
    /\ UNCHANGED <<widgetVars, builderVars, c_nodes, c_root, c_focus,
                   dispatchVars, attachIds, gen, armVars, buildVars, platVars, counterVars>>

\* The whole publish path, over the addresses PubPtrs.
PubPtrs == 1..MaxPubPtr
Next ==
    \/ \E p \in PubPtrs, g \in PubPtrs : AddWidget(p, g)
    \/ \E w \in PubPtrs : RemoveWidget(w)
    \/ \E w \in PubPtrs \cup {0} : SetFocus(w)
    \/ \E w \in PubPtrs : ExcludeWidget(w)
    \/ \E w \in PubPtrs : ExcludeSubtreeOf(w)
    \/ \E T \in {KindAt(p) : p \in PubPtrs} : ExcludeType(T)
    \/ Attach
    \/ RunWithAccessibility
    \/ KeyUp
    \/ Activate
    \/ Deactivate

Spec == Init /\ [][Next]_vars

\* The publish path on each of the three builds, over the addresses
\* PubPtrs: through the builder, or with an Adapter the application
\* constructs and drives itself.
InitPlatform == \E b \in Backends : InitOn(b)
NextPlatform ==
    \/ \E p \in PubPtrs, g \in PubPtrs : AddWidget(p, g)
    \/ \E w \in PubPtrs \cup {0} : SetFocus(w)
    \/ Attach
    \/ RunWithAccessibility
    \/ KeyUp
    \/ AdapterNew
    \/ AdapterWithActionHandler
    \/ \E u \in AppUpdates : AdapterUpdateIfActive(u)
    \/ \E ev \in Events : AdapterOnEvent(ev)
    \/ Activate
    \/ Deactivate
SpecPlatform == InitPlatform /\ [][NextPlatform]_vars

\* The collector alone: the application builds and edits its widgets,
\* registers exclusions, attaches, and KeyUp events rebuild the node list.
\* Only a registered closure reads a label, so relabelling is explored once
\* one is registered, on the first group and the first button.
RelabelledPtrs == {p \in Ptrs : p \in 2..3}
NextCollect ==
    \/ \E p \in Ptrs, g \in Ptrs : AddWidget(p, g)
    \/ \E w \in Ptrs : RemoveWidget(w)
    \/ \E w \in Ptrs : ExcludeWidget(w)
    \/ \E w \in Ptrs : ExcludeSubtreeOf(w)
    \/ \E T \in KindsUsed : ExcludeType(T)
    \/ \E P \in IfPreds : ExcludeIf(P)
    \/ /\ ex_preds \cap IfPreds # {}
       /\ \E w \in RelabelledPtrs, l \in Labels : SetLabel(w, l)
    \/ Attach
    \/ RunWithAccessibility
    \/ KeyUp
SpecCollect == Init /\ [][NextCollect]_vars

\* ======================================================================
\* The action dispatcher
\* ======================================================================
\* The action requests the consumer raises: a kind and the id of a node of
\* its tree.  ScrollToPoint stands for the kinds the dispatcher ignores.
\* inc and seq are not part of the request: inc records which of the
\* widgets that lived at the target address the request was issued for, seq
\* the request's place among the calls of do_action.
ActionKinds == {"Click", "Focus", "ScrollToPoint"}
Requests ==
    {[action |-> a, target |-> t, inc |-> gen[t], seq |-> nsent + 1] :
        a \in ActionKinds, t \in DOMAIN c_nodes}
\* tx.send(request) on the app::channel, a first-in first-out queue that
\* recv() takes from at the front.
ChannelSendFront(q, req) == <<req>> \o q
ChannelSend(q, req) == Append(q, req)

\* w.take_focus() succeeds on a widget that accepts the focus.
TakesFocus(k) ==
    k \in {"Button", "CheckButton", "ToggleButton", "Input", "IntInput",
           "TextEditor", "Slider", "Roller"}
\* The UI state an action request leaves, per the arms of the drain loop's
\* match: Click invokes the widget's callback, Focus requests the focus and
\* ignores a failure, the other kinds do nothing.
ApplyAction(req) ==
    CASE req.action = "Click" ->
            [WidgetState EXCEPT !.clicks[WidgetAt(req.target)] = @ + 1]
      [] req.action = "Focus" ->
            IF TakesFocus(kind[WidgetAt(req.target)])
            THEN [WidgetState EXCEPT !.focus = WidgetAt(req.target)]
            ELSE WidgetState
      [] OTHER -> WidgetState
\* The UI state FltkActionHandler::do_action leaves: it touches no widget.
DoActionAppliesDirectly(req) == ApplyAction(req)
DoActionWidgets(req) == WidgetState
\* do_action ends with app::awake().
AppAwake == TRUE
\* `while let Some(req) = rx.recv()`: after a request the loop goes on.
OnePerWake == "idle"
LoopAfterRecv == "draining"

\* do_action, first half, on the transport thread: tx.send(request).
DoActionSend(req) ==
    /\ active /\ t_pc = "idle" /\ nsent < MaxReq
    /\ queue' = ChannelSend(queue, req)
    /\ t_pc' = "sent"
    /\ nsent' = nsent + 1
    /\ SetWidgetState(DoActionWidgets(req))
    /\ last' = "DoActionSend"
    /\ UNCHANGED <<builderVars, consumerVars, awake, awake_cb, ui_pc, snap,
                   offered, attachIds, gen, armVars, buildVars, platVars, napplied, sentAtWake, queuedAtWake>>
\* do_action, second half: app::awake().
DoActionAwake ==
    /\ t_pc = "sent"
    /\ awake' = AppAwake
    /\ t_pc' = "idle"
    /\ last' = "DoActionAwake"
    /\ UNCHANGED <<widgetVars, builderVars, consumerVars, queue, awake_cb,
                   ui_pc, snap, offered, attachIds, gen, armVars, buildVars, platVars, counterVars>>
\* A handler given to app::awake_callback is called once: the toolkit takes
\* it off its queue before it calls it.
HandlerKept == "pending"
HandlerAfterCall == "spent"
\* The UI thread handles a pending wake and finds the handler Adapter::new
\* registered still queued: the toolkit takes it off its queue and calls it,
\* the drain loop starts.
WakeDrain ==
    /\ ui_pc = "idle" /\ awake /\ awake_cb = "pending"
    /\ awake' = FALSE
    /\ awake_cb' = HandlerAfterCall
    /\ ui_pc' = "draining"
    /\ sentAtWake' = nsent /\ queuedAtWake' = Len(queue)
    /\ last' = "WakeDrain"
    /\ UNCHANGED <<widgetVars, builderVars, consumerVars, queue, t_pc, snap,
                   offered, attachIds, gen, armVars, buildVars, platVars, nsent, napplied>>
\* The UI thread handles a pending wake raised by the bare app::awake() of
\* do_action after the handler has been called: no handler is queued and
\* nothing in src/ registers one again, so no code of the dispatcher runs.
WakeNoHandler ==
    /\ ui_pc = "idle" /\ awake /\ awake_cb # "pending"
    /\ awake' = FALSE
    /\ last' = "WakeNoHandler"
    /\ UNCHANGED <<widgetVars, builderVars, consumerVars, queue, awake_cb,
                   ui_pc, t_pc, snap, offered, attachIds, gen, armVars, buildVars, platVars, counterVars>>
\* One iteration of the drain loop on a request that is no Click: recv()
\* returns a request whose target is the address of a widget, the request
\* is applied to that widget.
DrainStep ==
    /\ ui_pc = "draining" /\ queue # <<>> /\ Head(queue).action # "Click"
    /\ WidgetAt(Head(queue).target) \in live
    /\ queue' = Tail(queue)
    /\ SetWidgetState(ApplyAction(Head(queue)))
    /\ napplied' = napplied + 1
    /\ ui_pc' = LoopAfterRecv
    /\ last' = "DrainStep"
    /\ UNCHANGED <<builderVars, consumerVars, awake, awake_cb, t_pc, snap,
                   offered, attachIds, gen, armVars, buildVars, platVars, nsent, sentAtWake, queuedAtWake>>
\* One iteration of the drain loop on a Click request, up to the call of
\* w.do_callback().  The callback is code of the application: until it
\* returns it may delete and create widgets and run the event loop, which
\* then handles key releases, resize notifications and wakes.  The RefMut
\* that rx.borrow_mut() returned in the test of the `while let` is alive
\* until the iteration ends.
ClickEnter ==
    /\ ui_pc = "draining" /\ queue # <<>> /\ Head(queue).action = "Click"
    /\ WidgetAt(Head(queue).target) \in live
    /\ queue' = Tail(queue)
    /\ IF BorrowMut("rx")
       THEN /\ held' = held \cup {"rx"}
            /\ ui_pc' = "callback"
            /\ SetWidgetState(ApplyAction(Head(queue)))
            /\ napplied' = napplied + 1
       ELSE /\ held' = held
            /\ ui_pc' = "panicked"
            /\ napplied' = napplied
            /\ UNCHANGED widgetVars
    /\ last' = "ClickEnter"
    /\ UNCHANGED <<builderVars, consumerVars, awake, awake_cb, t_pc, snap,
                   offered, attachIds, gen, armVars, buildVars, backend,
                   raised, nsent, sentAtWake, queuedAtWake>>
\* The widget's callback returns, the iteration ends and drops the RefMut.
ClickReturn ==
    /\ ui_pc = "callback"
    /\ ui_pc' = LoopAfterRecv
    /\ held' = held \ {"rx"}
    /\ last' = "ClickReturn"
    /\ UNCHANGED <<widgetVars, builderVars, consumerVars, queue, awake,
                   awake_cb, t_pc, snap, offered, attachIds, gen, armVars,
                   buildVars, backend, raised, counterVars>>
\* recv() returns None: the loop ends and the callback returns.
DrainEnd ==
    /\ ui_pc = "draining" /\ queue = <<>>
    /\ ui_pc' = "idle"
    /\ last' = "DrainEnd"
    /\ UNCHANGED <<widgetVars, builderVars, consumerVars, queue, awake,
                   awake_cb, t_pc, snap, offered, attachIds, gen, armVars, buildVars, platVars, counterVars>>

\* What Widget::from_widget_ptr(req.target.0) followed by a method call can
\* do when no widget lives at the address: the pointer dangles, the
\* behaviour is undefined.  The read finds nothing to act on, or the process
\* dies.  (An address taken over by a later widget is DrainStep's case.)
StaleOutcomes == {"nothing", "crash"}
\* One iteration of the drain loop on a request whose target is the address
\* of no widget.
DrainStale ==
    /\ ui_pc = "draining" /\ queue # <<>>
    /\ WidgetAt(Head(queue).target) \notin live
    /\ queue' = Tail(queue)
    /\ \E outcome \in StaleOutcomes :
          \/ /\ outcome = "nothing"
             /\ ui_pc' = LoopAfterRecv
             /\ napplied' = napplied + 1
          \/ /\ outcome = "crash"
             /\ ui_pc' = "crashed"
             /\ napplied' = napplied
    /\ last' = "DrainStale"
    /\ UNCHANGED <<widgetVars, builderVars, consumerVars, awake, awake_cb,
                   t_pc, snap, offered, attachIds, gen, armVars, buildVars, platVars, nsent,
                   sentAtWake, queuedAtWake>>

\* The program after attach() and run_with_accessibility, the drain handler
\* registered and not yet called, a consumer active on its initial tree: a
\* window holding a group that holds a button.
AttachedStart ==
    /\ live = {1, 2, 3}
    /\ kind = [p \in Ptrs |-> IF p \in {1, 2, 3} THEN KindAt(p) ELSE "None"]
    /\ kids = [p \in Ptrs |-> IF p = 1 THEN <<2>> ELSE IF p = 2 THEN <<3>> ELSE <<>>]
    /\ par = [p \in Ptrs |-> IF p = 2 THEN 1 ELSE IF p = 3 THEN 2 ELSE 0]
    /\ focus = 0
    /\ w_val = [p \in Ptrs |-> FALSE]
    /\ w_clicks = [p \in Ptrs |-> 0]
    /\ w_label = [p \in Ptrs |-> "keep"]
    /\ phase = "running"
    /\ ex_ptrs = {} /\ ex_subtree = {} /\ ex_preds = {}
    /\ wids = Collect /\ win_id = RootPtr
    /\ active = TRUE
    /\ c_nodes = ApplyUpdate(<<>>, 0, RequestInitialTree)
    /\ c_root = RootPtr /\ c_focus = RootPtr
    /\ queue = <<>> /\ awake = TRUE /\ awake_cb = "pending"
    /\ ui_pc = "idle" /\ t_pc = "idle"
    /\ snap = <<>> /\ offered = NoUpdate /\ attachIds = ExpectedIds
    /\ nsent = 0 /\ napplied = 0 /\ sentAtWake = 0 /\ queuedAtWake = 0
    /\ gen = [p \in Ptrs |-> 0]
    /\ last = "Activate"
InitDispatch ==
    /\ AttachedStart
    /\ tw = NoArm /\ tw_before = NoArm /\ areq = NoRequest
    /\ bw = NoArm /\ bnodes = <<>>
    /\ PlatformInit("unix")

\* The steps of the UI thread; a callback the Click arm calls returns.
UIStep ==
    WakeDrain \/ WakeNoHandler \/ DrainStep \/ ClickEnter \/ ClickReturn \/ DrainEnd
NextDispatch ==
    \/ \E req \in Requests : DoActionSend(req)
    \/ DoActionAwake
    \/ WakeDrain
    \/ WakeNoHandler
    \/ DrainStep
    \/ ClickEnter
    \/ ClickReturn
    \/ DrainEnd
SpecDispatch == InitDispatch /\ [][NextDispatch]_vars
\* The UI thread's event loop keeps running, and a call of do_action runs
\* to its end.
FairDispatch ==
    SpecDispatch /\ WF_vars(UIStep) /\ WF_vars(DoActionAwake)

\* The dispatcher while the application deletes and creates the widgets the
\* consumer holds ids of; the allocator may hand a freed address out again.
\* The UI thread deletes and creates between its message cycles and in a
\* widget's callback; a dead process takes no step.
KnownPtrs == (DOMAIN c_nodes) \ {RootPtr}
Running == ui_pc # "crashed"
NextStale ==
    \/ \E req \in Requests : Running /\ DoActionSend(req)
    \/ Running /\ DoActionAwake
    \/ WakeDrain
    \/ WakeNoHandler
    \/ DrainStep
    \/ ClickEnter
    \/ ClickReturn
    \/ DrainStale
    \/ DrainEnd
    \/ \E w \in KnownPtrs : ui_pc \in {"idle", "callback"} /\ RemoveWidget(w)
    \/ \E p \in KnownPtrs, g \in live :
          ui_pc \in {"idle", "callback"} /\ AddWidget(p, g)
SpecStale == InitDispatch /\ [][NextStale]_vars

\* The UI thread with the calls that nest: the callback of a widget may
\* resize the window and it may run the event loop (a modal dialog does),
\* which then handles key releases, resize notifications and wakes before
\* the callback returns.
\* The window is resized: the closure with_action_handler gave to
\* resize_callback runs.  In the build for the session adapter it borrows
\* the platform adapter mutably for set_root_window_bounds; in the other
\* builds its body is empty.
Resize ==
    /\ phase # "builder" /\ ui_pc \in {"idle", "callback"}
    /\ ui_pc' = IF ~Subclassing(backend) /\ ~BorrowMut("adapter")
                THEN "panicked" ELSE ui_pc
    /\ last' = "Resize"
    /\ UNCHANGED <<widgetVars, builderVars, consumerVars, queue, awake,
                   awake_cb, t_pc, snap, offered, attachIds, gen, armVars,
                   buildVars, platVars, counterVars>>
\* The event loop running inside the callback handles a pending wake: a
\* handler still queued is called and starts with rx.borrow_mut().
NestedWake ==
    /\ ui_pc = "callback" /\ awake
    /\ awake' = FALSE
    /\ IF awake_cb = "pending"
       THEN /\ awake_cb' = HandlerAfterCall
            /\ ui_pc' = IF BorrowMut("rx") THEN "draining" ELSE "panicked"
       ELSE UNCHANGED <<awake_cb, ui_pc>>
    /\ last' = "NestedWake"
    /\ UNCHANGED <<widgetVars, builderVars, consumerVars, queue, t_pc, snap,
                   offered, attachIds, gen, armVars, buildVars, platVars,
                   counterVars>>

InitBorrow ==
    /\ AttachedStart
    /\ tw = NoArm /\ tw_before = NoArm /\ areq = NoRequest
    /\ bw = NoArm /\ bnodes = <<>>
    /\ \E b \in Backends : PlatformInit(b)
\* The consumer raises Click and Focus requests.
NextBorrow ==
    \/ \E req \in Requests : req.action \in {"Click", "Focus"} /\ DoActionSend(req)
    \/ DoActionAwake
    \/ WakeDrain
    \/ WakeNoHandler
    \/ DrainStep
    \/ ClickEnter
    \/ ClickReturn
    \/ DrainEnd
    \/ NestedWake
    \/ Resize
    \/ ui_pc \in {"idle", "callback"} /\ KeyUp
SpecBorrow == InitBorrow /\ [][NextBorrow]_vars

\* The dispatcher together with the publish path: the consumer raises
\* requests, the UI thread drains them, and the user's key releases reach
\* the root's handler between two message cycles of the UI thread or while
\* a widget's callback runs the event loop.  The event loop and a started
\* do_action keep running; when a key is released is up to the user.
NextSync ==
    \/ \E req \in Requests : DoActionSend(req)
    \/ DoActionAwake
    \/ WakeDrain
    \/ WakeNoHandler
    \/ DrainStep
    \/ ClickEnter
    \/ ClickReturn
    \/ DrainEnd
    \/ NestedWake
    \/ ui_pc \in {"idle", "callback"} /\ KeyUp
SpecSync == InitDispatch /\ [][NextSync]_vars
FairSync == SpecSync /\ WF_vars(UIStep) /\ WF_vars(DoActionAwake)


\* ======================================================================
\* The arms of the drain loop on one widget
\* ======================================================================
MaxText == 4      \* length of the text a text widget starts with

\* ------------------------------------------------------------- strings
\* A string is a sequence of one-character strings.
UpperChars == <<"A", "B", "C", "D", "E", "F", "G", "H", "I", "J", "K", "L", "M",
                "N", "O", "P", "Q", "R", "S", "T", "U", "V", "W", "X", "Y", "Z">>
LowerChars == <<"a", "b", "c", "d", "e", "f", "g", "h", "i", "j", "k", "l", "m",
                "n", "o", "p", "q", "r", "s", "t", "u", "v", "w", "x", "y", "z">>
DigitChars == <<"0", "1", "2", "3", "4", "5", "6", "7", "8", "9">>
IndexIn(c, chars) ==
    IF \E i \in 1..Len(chars) : chars[i] = c
    THEN CHOOSE i \in 1..Len(chars) : chars[i] = c
    ELSE 0
\* str::to_ascii_lowercase
LowerChar(c) ==
    IF IndexIn(c, UpperChars) # 0 THEN LowerChars[IndexIn(c, UpperChars)] ELSE c
ToAsciiLowercase(s) == [i \in 1..Len(s) |-> LowerChar(s[i])]
\* matches!(s.to_ascii_lowercase().as_str(), "1" | "true" | "on" | "yes")
TruthyExact(s) == s \in {<<"1">>, <<"t", "r", "u", "e">>, <<"o", "n">>, <<"y", "e", "s">>}
Truthy(s) ==
    ToAsciiLowercase(s) \in
        {<<"1">>, <<"t", "r", "u", "e">>, <<"o", "n">>, <<"y", "e", "s">>}
\* ------------------------------------------------------------- f64
\* An f64 is named by the shortest decimal that reads back as it, the one
\* Display prints: cls "fin" is (-1)^neg * m * 10^e with m not a multiple
\* of ten (zero is m = 0, e = 0, and keeps its sign), "inf" is an infinity
\* of that sign, "nan" is a NaN with that sign bit.  Mantissas have at most
\* nine digits here, so every product below stays inside 32 bits.
RECURSIVE Pow10(_)
Pow10(k) == IF k = 0 THEN 1 ELSE 10 * Pow10(k - 1)
RECURSIVE NumDigits(_)
NumDigits(m) == IF m < 10 THEN 1 ELSE 1 + NumDigits(m \div 10)
\* The mantissa written with nine digits, for comparing magnitudes.
Lead9(m) == m * Pow10(9 - NumDigits(m))
\* The exponent of the value in scientific notation.
Order(m, e) == NumDigits(m) + e - 1
F64Inf(neg) == [cls |-> "inf", neg |-> neg, m |-> 0, e |-> 0]
F64NaN(neg) == [cls |-> "nan", neg |-> neg, m |-> 0, e |-> 0]
F64Zero(neg) == [cls |-> "fin", neg |-> neg, m |-> 0, e |-> 0]
\* Below 1e-323 the f64s are the multiples of the least subnormal, 2^-1074,
\* which lie further apart than the decimals of nine digits, so the nearest
\* one is found by division.  Lengths are counted in units of 1e-324 and
\* written as strings of forty decimal digits, ten before the point and
\* thirty after it.  HalfUlp is 2^-1075, half of the least subnormal: no
\* whole multiple of it up to 4.2e8 comes nearer than 9e-18 to a decimal of
\* eight places, so thirty places decide every comparison made below.
HalfUlpFrac ==
    <<4, 7, 0, 3, 2, 8, 2, 2, 9, 2, 0, 6, 2, 3, 2,
      7, 2, 0, 8, 8, 2, 8, 4, 3, 9, 6, 4, 3, 4, 1>>
HalfUlp == [i \in 1..9 |-> 0] \o <<2>> \o HalfUlpFrac
UnitsAt == Len(HalfUlp) - Len(HalfUlpFrac)
\* m * 10^-j units, for m below 1e9 and j in 0..8.
BigOf(m, j) ==
    [p \in 1..Len(HalfUlp) |->
        IF UnitsAt + j - p \in 0..9 THEN (m \div Pow10(UnitsAt + j - p)) % 10 ELSE 0]
BigShift(a, s) == [p \in 1..Len(a) |-> IF p + s <= Len(a) THEN a[p + s] ELSE 0]
BigLe(a, b) ==
    \/ a = b
    \/ \E i \in 1..Len(a) : a[i] < b[i] /\ \A t \in 1..(i - 1) : a[t] = b[t]
\* The first i digits of a + b and of a - b, with a carry or a borrow c
\* coming in from the right.
RECURSIVE BigAddTo(_, _, _, _)
BigAddTo(a, b, i, c) ==
    IF i = 0 THEN <<>>
    ELSE IF a[i] + b[i] + c >= 10
    THEN Append(BigAddTo(a, b, i - 1, 1), a[i] + b[i] + c - 10)
    ELSE Append(BigAddTo(a, b, i - 1, 0), a[i] + b[i] + c)
BigAdd(a, b) == BigAddTo(a, b, Len(a), 0)
RECURSIVE BigSubTo(_, _, _, _)
BigSubTo(a, b, i, c) ==
    IF i = 0 THEN <<>>
    ELSE IF a[i] < b[i] + c
    THEN Append(BigSubTo(a, b, i - 1, 1), a[i] + 10 - b[i] - c)
    ELSE Append(BigSubTo(a, b, i - 1, 0), a[i] - b[i] - c)
BigSub(a, b) == BigSubTo(a, b, Len(a), 0)
\* How many times b goes into r, added to d, and what is left of r.
RECURSIVE BigDigit(_, _, _)
BigDigit(r, b, d) ==
    IF BigLe(b, r) THEN BigDigit(BigSub(r, b), b, d + 1) ELSE [d |-> d, r |-> r]
\* Long division of r by HalfUlp from the digit of 10^s down: the quotient
\* added to q, and the remainder.
RECURSIVE BigDivRem(_, _, _)
BigDivRem(r, s, q) ==
    LET step == BigDigit(r, BigShift(HalfUlp, s), 0)
    IN IF s = 0 THEN [q |-> q + step.d, r |-> step.r]
       ELSE BigDivRem(step.r, s - 1, q + step.d * Pow10(s))
\* The whole number the first i digits of a spell.
RECURSIVE BigPrefix(_, _)
BigPrefix(a, i) == IF i = 0 THEN 0 ELSE 10 * BigPrefix(a, i - 1) + a[i]
\* The shortest decimal between lo and hi ends at i, where the two first
\* differ; of those the one nearest to mid is taken, as Display prints it.
ShortestAt(neg, lo, mid, hi, i) ==
    LET near == mid[i] + (IF mid[i + 1] >= 5 THEN 1 ELSE 0)
        digit == IF near <= lo[i] THEN lo[i] + 1
                 ELSE IF near > hi[i] THEN hi[i]
                 ELSE near
    IN [cls |-> "fin", neg |-> neg,
        m |-> 10 * BigPrefix(hi, i - 1) + digit, e |-> UnitsAt - i - 324]
ShortestBetween(neg, lo, mid, hi) ==
    ShortestAt(neg, lo, mid, hi,
               CHOOSE p \in 1..Len(hi) :
                   lo[p] # hi[p] /\ \A t \in 1..(p - 1) : lo[t] = hi[t])
\* The multiple of 2^-1074 nearest to v, given v divided by HalfUlp: the
\* quotient is 2k - 1 or 2k when the nearest multiple is the k-th.
BigNearest(v, d) ==
    IF d.q % 2 = 1 THEN BigAdd(BigSub(v, d.r), HalfUlp) ELSE BigSub(v, d.r)
\* The f64 mid, a multiple of 2^-1074: the decimals that read back as it lie
\* within HalfUlp of it.
F64Around(neg, mid) ==
    ShortestBetween(neg, BigSub(mid, HalfUlp), mid, BigAdd(mid, HalfUlp))
\* The f64 nearest to m * 10^e for e in -332..-324 and a value above
\* HalfUlp.
F64Subnormal(neg, m, e) ==
    F64Around(neg, BigNearest(BigOf(m, 0 - 324 - e),
                              BigDivRem(BigOf(m, 0 - 324 - e), 8, 0)))
\* The f64 nearest to (-1)^neg * m * 10^e: above f64::MAX
\* (1.7976931348623157e308) it is an infinity, below half of the least
\* subnormal (2.47e-324) it is a zero, and a decimal of up to nine digits
\* that ends at 1e-323 or above names the f64 it rounds to.
RECURSIVE F64Near(_, _, _)
F64Near(neg, m, e) ==
    IF m = 0 THEN F64Zero(neg)
    ELSE IF m % 10 = 0 THEN F64Near(neg, m \div 10, e + 1)
    ELSE IF Order(m, e) > 308 \/ (Order(m, e) = 308 /\ Lead9(m) > 179769313)
    THEN F64Inf(neg)
    ELSE IF Order(m, e) < 0 - 324 \/ (Order(m, e) = 0 - 324 /\ Lead9(m) <= 247032822)
    THEN F64Zero(neg)
    ELSE IF e <= 0 - 324 THEN F64Subnormal(neg, m, e)
    ELSE [cls |-> "fin", neg |-> neg, m |-> m, e |-> e]
\* The f64 of a whole number, as a literal such as 50.0 gives it.
F64Of(n) == F64Near(n < 0, IF n < 0 THEN 0 - n ELSE n, 0)
IsDigits(s) == Len(s) > 0 /\ \A i \in 1..Len(s) : IndexIn(s[i], DigitChars) # 0
RECURSIVE DigitsValue(_)
DigitsValue(s) ==
    IF s = <<>> THEN 0
    ELSE 10 * DigitsValue(SubSeq(s, 1, Len(s) - 1))
         + (IndexIn(s[Len(s)], DigitChars) - 1)
\* The place of the first character of s that is in cs, 0 if there is none.
FirstOf(s, cs) ==
    IF \E i \in 1..Len(s) : s[i] \in cs
    THEN CHOOSE i \in 1..Len(s) : s[i] \in cs /\ \A j \in 1..(i - 1) : s[j] \notin cs
    ELSE 0
\* The digits-and-exponent alternative of the grammar of f64::from_str:
\*   Number ::= ( Digit+ | Digit+ '.' Digit* | Digit* '.' Digit+ ) Exp?
\*   Exp    ::= 'e' Sign? Digit+
ParseNumber(neg, body) ==
    LET ePos == FirstOf(body, {"e", "E"})
        mant == IF ePos = 0 THEN body ELSE SubSeq(body, 1, ePos - 1)
        expS == IF ePos = 0 THEN <<>> ELSE SubSeq(body, ePos + 1, Len(body))
        expSigned == Len(expS) > 0 /\ expS[1] \in {"+", "-"}
        expDigits == IF expSigned THEN Tail(expS) ELSE expS
        dot == FirstOf(mant, {"."})
        ip == IF dot = 0 THEN mant ELSE SubSeq(mant, 1, dot - 1)
        fp == IF dot = 0 THEN <<>> ELSE SubSeq(mant, dot + 1, Len(mant))
        expVal == IF ePos = 0 THEN 0
                  ELSE IF expSigned /\ expS[1] = "-" THEN 0 - DigitsValue(expDigits)
                  ELSE DigitsValue(expDigits)
    IN IF /\ ePos # 0 => IsDigits(expDigits)
          /\ ip = <<>> \/ IsDigits(ip)
          /\ fp = <<>> \/ IsDigits(fp)
          /\ Len(ip) + Len(fp) >= 1
       THEN [ok |-> TRUE, val |-> F64Near(neg, DigitsValue(ip \o fp), expVal - Len(fp))]
       ELSE [ok |-> FALSE, val |-> F64Zero(FALSE)]
\* s.parse::<f64>():  Float ::= Sign? ( 'inf' | 'infinity' | 'nan' | Number ),
\* the three words in any letter case; nothing is trimmed.  val is
\* meaningful only when ok.
ParseF64(s) ==
    LET signed == Len(s) > 0 /\ s[1] \in {"+", "-"}
        neg == signed /\ s[1] = "-"
        body == IF signed THEN Tail(s) ELSE s
        low == ToAsciiLowercase(body)
    IN IF low \in {<<"i", "n", "f">>, <<"i", "n", "f", "i", "n", "i", "t", "y">>}
       THEN [ok |-> TRUE, val |-> F64Inf(neg)]
       ELSE IF low = <<"n", "a", "n">> THEN [ok |-> TRUE, val |-> F64NaN(neg)]
       ELSE ParseNumber(neg, body)
\* format!("{}", n) for a whole number n >= 0.
RECURSIVE FormatNat(_)
FormatNat(n) ==
    IF n < 10 THEN <<DigitChars[n + 1]>>
    ELSE Append(FormatNat(n \div 10), DigitChars[(n % 10) + 1])
Zeros(k) == [i \in 1..k |-> "0"]
\* format!("{}", n) for an f64: never an exponent, "NaN" without a sign,
\* "inf" and zero with theirs.
FormatNum(x) ==
    LET ds == FormatNat(x.m)
        k == 0 - x.e
    IN IF x.cls = "nan" THEN <<"N", "a", "N">>
       ELSE (IF x.neg THEN <<"-">> ELSE <<>>) \o
            (IF x.cls = "inf" THEN <<"i", "n", "f">>
             ELSE IF x.e >= 0 THEN ds \o Zeros(x.e)
             ELSE IF Len(ds) > k
             THEN SubSeq(ds, 1, Len(ds) - k) \o <<".">> \o SubSeq(ds, Len(ds) - k + 1, Len(ds))
             ELSE <<"0", ".">> \o Zeros(k - Len(ds)) \o ds)
\* format!("{}", n.round() as i64): round goes to the nearest whole number
\* and away from zero on a tie; the cast gives 0 for NaN and the nearest
\* end of i64 for what lies outside it.
I64MaxText ==
    <<"9", "2", "2", "3", "3", "7", "2", "0", "3", "6", "8", "5", "4", "7", "7",
      "5", "8", "0", "7">>
I64MinText ==
    <<"-", "9", "2", "2", "3", "3", "7", "2", "0", "3", "6", "8", "5", "4", "7",
      "7", "5", "8", "0", "8">>
FormatRoundAsI64(x) ==
    LET k == 0 - x.e
        whole == IF k > NumDigits(x.m) THEN 0
                 ELSE (x.m \div Pow10(k))
                      + (IF 2 * (x.m % Pow10(k)) >= Pow10(k) THEN 1 ELSE 0)
    IN IF x.cls = "nan" THEN <<"0">>
       ELSE IF \/ x.cls = "inf"
               \/ Order(x.m, x.e) > 18
               \/ (Order(x.m, x.e) = 18 /\ Lead9(x.m) > 922337203)
       THEN (IF x.neg THEN I64MinText ELSE I64MaxText)
       ELSE IF x.e >= 0
       THEN (IF x.neg /\ x.m # 0 THEN <<"-">> ELSE <<>>) \o FormatNat(x.m) \o
            (IF x.m = 0 THEN <<>> ELSE Zeros(x.e))
       ELSE (IF x.neg /\ whole # 0 THEN <<"-">> ELSE <<>>) \o FormatNat(whole)
\* n != 0.0: false for both zeros, true for every other f64, NaN included.
F64NonZero(x) == x.cls # "fin" \/ x.m # 0
\* a < b and a <= b on f64: false whenever either is a NaN.
F64Sign(x) == IF x.cls = "fin" /\ x.m = 0 THEN 0 ELSE IF x.neg THEN 0 - 1 ELSE 1
F64MagLt(a, b) ==
    IF a.cls = "inf" THEN FALSE
    ELSE IF b.cls = "inf" THEN TRUE
    ELSE IF Order(a.m, a.e) # Order(b.m, b.e) THEN Order(a.m, a.e) < Order(b.m, b.e)
    ELSE Lead9(a.m) < Lead9(b.m)
F64Lt(a, b) ==
    /\ a.cls # "nan" /\ b.cls # "nan"
    /\ IF F64Sign(a) # F64Sign(b) THEN F64Sign(a) < F64Sign(b)
       ELSE IF F64Sign(a) = 0 THEN FALSE
       ELSE IF F64Sign(a) = 1 THEN F64MagLt(a, b)
       ELSE F64MagLt(b, a)
F64Le(a, b) == a.cls # "nan" /\ b.cls # "nan" /\ ~F64Lt(b, a)

\* ------------------------------------------------------------ integers
\* A usize is written hi * 2^31 + lo with 0 <= lo < 2^31.
TwoTo31Less1 == 2147483647
USize(hi, lo) == [hi |-> hi, lo |-> lo]
\* `x as i32` keeps the low 32 bits of x and reads them as a signed number.
AsI32(x) == IF x.hi % 2 = 0 THEN x.lo ELSE (x.lo - TwoTo31Less1) - 1
\* i32::clamp(0, len)
Clamp(v, lo, hi) == IF v < lo THEN lo ELSE IF v > hi THEN hi ELSE v
MinOf(a, b) == IF a <= b THEN a ELSE b
MaxOf(a, b) == IF a <= b THEN b ELSE a

\* ------------------------------------------------- the toolkit's widgets
\* One widget: its address, its concrete kind, and the state the toolkit
\* keeps for it.  on: the value of a check or toggle button.  val, min,
\* max, step: a valuator.  text, pos, mark: an input's text, its insert
\* position (the caret) and the other end of its selection.  hasbuf, text,
\* sel, pos: a text editor's buffer, the buffer's text and selection (<<>>
\* or <<start, end>>), and the editor's insert position (the caret).
\* focused: the widget holds the input focus.  clicks: the number of times
\* its callback was invoked.
BlankWidget(id, k) ==
    [id |-> id, kind |-> k, on |-> FALSE, val |-> F64Of(0), min |-> F64Of(0),
     max |-> F64Of(0), step |-> F64Of(0), text |-> <<>>, pos |-> 0, mark |-> 0, hasbuf |-> FALSE,
     sel |-> <<>>, focused |-> FALSE, clicks |-> 0]
\* Fl_Button::value(b)
ButtonSetValue(w, b) == [w EXCEPT !.on = b]
\* Fl_Valuator::value(n) stores n as it is; the bounds are applied only to
\* values the user drags or types.
ValuatorSetValue(w, n) == [w EXCEPT !.val = n]
\* Fl_Input_::insert_position(p): position and mark both go to p, kept
\* inside the text.
InputSetPosition(w, p) ==
    [w EXCEPT !.pos = Clamp(p, 0, Len(w.text)), !.mark = Clamp(p, 0, Len(w.text))]
\* Fl_Input_::mark(m): the mark goes to m, the position stays.
InputSetMark(w, m) == [w EXCEPT !.mark = Clamp(m, 0, Len(w.text))]
\* Fl_Input_::value(s) on a field that is not scrolled: nothing changes when
\* s is the text the field holds; otherwise the text is replaced and position
\* and mark go to its end, in a read-only field (an output) to its start.
InputReadonly(k) == IsPtrOf(k, "Output")
InputSetValue(w, s) ==
    IF s = w.text THEN w
    ELSE [w EXCEPT !.text = s,
                   !.pos = IF InputReadonly(w.kind) THEN 0 ELSE Len(s),
                   !.mark = IF InputReadonly(w.kind) THEN 0 ELSE Len(s)]
\* Fl_Text_Buffer::select(start, end); an empty range selects nothing.
BufSelect(w, start, end) ==
    [w EXCEPT !.sel = IF start = end THEN <<>>
                      ELSE <<MinOf(start, end), MaxOf(start, end)>>]
\* Fl_Text_Buffer::unselect()
BufKeepSelection(w) == w
BufUnselect(w) == [w EXCEPT !.sel = <<>>]
\* Fl_Text_Display::insert_position(p), kept inside the buffer.
EditorSetInsertPosition(w, p) == [w EXCEPT !.pos = Clamp(p, 0, Len(w.text))]
\* Fl_Text_Buffer::text(s) on the editor's buffer: the whole text is
\* replaced, the selection goes with the old text, and the display moves a
\* caret that stood at the end to the new end and any other to the start.
BufSetText(w, s) ==
    [w EXCEPT !.text = s, !.sel = <<>>,
              !.pos = IF w.pos > 0 /\ w.pos >= Len(w.text) THEN Len(s) ELSE 0]
\* e.set_buffer(Some(b)) with a fresh buffer b holding s.
EditorSetNewBuffer(w, s) ==
    [w EXCEPT !.hasbuf = TRUE, !.text = s, !.sel = <<>>, !.pos = 0]

\* Fl_Text_Selection::update: what an edit that deletes nDeleted characters
\* at pos and inserts nInserted there leaves of a selection.
SelUpdate(sl, pos, nDeleted, nInserted) ==
    IF sl = <<>> \/ pos > sl[2] THEN sl
    ELSE IF pos + nDeleted <= sl[1]
    THEN <<sl[1] + nInserted - nDeleted, sl[2] + nInserted - nDeleted>>
    ELSE IF pos <= sl[1] /\ pos + nDeleted >= sl[2] THEN <<>>
    ELSE IF pos <= sl[1] THEN <<pos, nInserted + sl[2] - nDeleted>>
    ELSE IF pos < sl[2]
    THEN (IF sl[2] + nInserted - nDeleted <= sl[1] THEN <<>>
          ELSE <<sl[1], sl[2] + nInserted - nDeleted>>)
    ELSE sl
\* The text with the characters from offset b up to offset e replaced by s.
Splice(text, b, e, s) == SubSeq(text, 1, b) \o s \o SubSeq(text, e + 1, Len(text))
\* Fl_Text_Buffer::replace(start, end, s): the range is removed, then s is
\* inserted at start; the selection follows both edits.
BufReplace(w, start, end, s) ==
    [w EXCEPT !.text = Splice(w.text, start, end, s),
              !.sel = SelUpdate(SelUpdate(w.sel, start, end - start, 0),
                                start, 0, Len(s))]
\* Fl_Text_Buffer::insert(pos, s)
BufInsert(w, p, s) ==
    [w EXCEPT !.text = Splice(w.text, p, p, s), !.sel = SelUpdate(w.sel, p, 0, Len(s))]
\* Fl_Input_::replace(b, e, s): the ends are put in order, the range is
\* replaced, position and mark go to the end of the inserted text.
InputReplace(w, b, e, s) ==
    [w EXCEPT !.text = Splice(w.text, MinOf(b, e), MaxOf(b, e), s),
              !.pos = MinOf(b, e) + Len(s), !.mark = MinOf(b, e) + Len(s)]
InputAppend(w, s) == InputReplace(w, Len(w.text), Len(w.text), s)
\* Fl_Input_::insert(s): replace(position, mark, s)
InputInsert(w, s) == InputReplace(w, w.pos, w.mark, s)
\* Fl_Widget::do_callback()
DoCallback(w) == [w EXCEPT !.clicks = @ + 1]
\* Fl_Widget::take_focus(): the focus goes to a widget that accepts it.
TakeFocus(w) == IF TakesFocus(w.kind) THEN [w EXCEPT !.focused = TRUE] ELSE w

\* is_ptr_of Input || IntInput || FloatInput || MultilineInput
IsInputFamily(k) ==
    \/ IsPtrOf(k, "Input") \/ IsPtrOf(k, "IntInput")
    \/ IsPtrOf(k, "FloatInput") \/ IsPtrOf(k, "MultilineInput")

\* --------------------------------------------------- ReplaceSelectedText
\* The TextEditor path: nothing without a buffer; a non-empty selection is
\* replaced and the caret put behind the payload; otherwise the payload is
\* inserted at the caret and the caret advanced by its length.
ReplaceInEditor(w, s) ==
    IF ~w.hasbuf THEN w
    ELSE IF w.sel # <<>> /\ w.sel[1] # w.sel[2]
    THEN EditorSetInsertPosition(BufReplace(w, w.sel[1], w.sel[2], s),
                                 w.sel[1] + Len(s))
    ELSE EditorSetInsertPosition(BufInsert(w, w.pos, s), w.pos + Len(s))
\* The Input path: start = i.position(), end = i.mark().
ReplaceInInput(w, s) ==
    LET start == w.pos
        end == w.mark
    IN IF start # end
       THEN InputSetMark(InputSetPosition(InputReplace(w, start, end, s),
                                          start + Len(s)),
                         start + Len(s))
       ELSE InputSetMark(InputSetPosition(InputInsert(w, s), start + Len(s)),
                         start + Len(s))
ArmReplaceSelectedText(w, req) ==
    IF req.data.type # "Value" THEN w
    ELSE IF IsPtrOf(w.kind, "TextEditor") THEN ReplaceInEditor(w, req.data.s)
    ELSE IF IsInputFamily(w.kind) THEN ReplaceInInput(w, req.data.s)
    ELSE w

\* ------------------------------------------------------ SetTextSelection
\* The TextEditor path: a missing buffer is created, both offsets are cast
\* and clamped, equal offsets move the caret, others select the ordered
\* range and put the caret at its end.
SelectInEditor(w, sel) ==
    LET e == IF w.hasbuf THEN w ELSE EditorSetNewBuffer(w, <<>>)
        len == Len(e.text)
        a == Clamp(AsI32(sel.anchor.idx), 0, len)
        f == Clamp(AsI32(sel.focus.idx), 0, len)
    IN IF a = f
       THEN EditorSetInsertPosition(BufUnselect(e), a)
       ELSE EditorSetInsertPosition(BufSelect(e, MinOf(a, f), MaxOf(a, f)),
                                    MaxOf(a, f))
\* The Input path: set_position(start), then set_mark(end).
SelectInInput(w, sel) ==
    LET len == Len(w.text)
        a == Clamp(AsI32(sel.anchor.idx), 0, len)
        f == Clamp(AsI32(sel.focus.idx), 0, len)
    IN InputSetMark(InputSetPosition(w, MinOf(a, f)), MaxOf(a, f))
\* `sel.anchor.node == req.target && sel.focus.node == req.target`
SelectionGuardAnchorOnly(req) == req.data.anchor.node = req.target
SelectionGuard(req) ==
    req.data.anchor.node = req.target /\ req.data.focus.node = req.target
ArmSetTextSelection(w, req) ==
    IF req.data.type # "SetTextSelection" THEN w
    ELSE IF ~SelectionGuard(req) THEN w
    ELSE IF IsPtrOf(w.kind, "TextEditor") THEN SelectInEditor(w, req.data)
    ELSE IF IsInputFamily(w.kind) THEN SelectInInput(w, req.data)
    ELSE w

\* -------------------------------------------------------------- SetValue
\* The types the two set_val! chains name.
SetValKinds ==
    {"Slider", "NiceSlider", "Dial", "LineDial", "Counter", "Scrollbar",
     "ValueInput", "ValueOutput", "ValueSlider", "HorValueSlider", "HorSlider",
     "HorNiceSlider", "FillSlider", "HorFillSlider", "Spinner", "Progress"}
SetValAnyKind(w, n) == ValuatorSetValue(w, n)
SetVal(w, n) ==
    IF \E T \in SetValKinds : IsPtrOf(w.kind, T) THEN ValuatorSetValue(w, n) ELSE w
\* ActionData::Value(s)
ArmSetValueString(w, str) ==
    IF IsInputFamily(w.kind) THEN InputSetValue(w, str)
    ELSE IF IsPtrOf(w.kind, "TextEditor")
    THEN IF w.hasbuf THEN BufSetText(w, str) ELSE EditorSetNewBuffer(w, str)
    ELSE IF IsPtrOf(w.kind, "CheckButton") \/ IsPtrOf(w.kind, "ToggleButton")
    THEN ButtonSetValue(w, Truthy(str))
    ELSE IF ParseF64(str).ok THEN SetVal(w, ParseF64(str).val)
    ELSE w
\* ActionData::NumericValue(n): the text inputs take n formatted (the
\* IntInput after rounding), the buttons n != 0.0, the valuators n.
ArmSetValueNumeric(w, n) ==
    IF IsPtrOf(w.kind, "IntInput") THEN InputSetValue(w, FormatRoundAsI64(n))
    ELSE IF IsInputFamily(w.kind) THEN InputSetValue(w, FormatNum(n))
    ELSE IF IsPtrOf(w.kind, "TextEditor")
    THEN IF w.hasbuf THEN BufSetText(w, FormatNum(n))
         ELSE EditorSetNewBuffer(w, FormatNum(n))
    ELSE IF IsPtrOf(w.kind, "CheckButton") \/ IsPtrOf(w.kind, "ToggleButton")
    THEN ButtonSetValue(w, F64NonZero(n))
    ELSE SetVal(w, n)
ArmSetValue(w, req) ==
    CASE req.data.type = "Value" -> ArmSetValueString(w, req.data.s)
      [] req.data.type = "NumericValue" -> ArmSetValueNumeric(w, req.data.n)
      [] OTHER -> w

\* Action::Click and Action::Focus
ArmClick(w, req) == DoCallback(w)
ArmFocus(w, req) == TakeFocus(w)
\* Action::ScrollIntoView: an editor scrolls its caret into view, which
\* moves the view and nothing of the state kept here.
ArmScrollIntoView(w, req) == w
\* Action::ScrollToPoint: an empty arm.
ArmScrollToPoint(w, req) == w
\* A fall-through arm that treats an unknown action as SetValue.
ArmOtherAsSetValue(w, req) == ArmSetValue(w, req)
\* `_ => {}`: every other action.
ArmOther(w, req) == w

\* The widget after the drain loop's match on req.action.
ApplyArm(w, req) ==
    CASE req.action = "Click" -> ArmClick(w, req)
      [] req.action = "Focus" -> ArmFocus(w, req)
      [] req.action = "ReplaceSelectedText" -> ArmReplaceSelectedText(w, req)
      [] req.action = "ScrollIntoView" -> ArmScrollIntoView(w, req)
      [] req.action = "ScrollToPoint" -> ArmScrollToPoint(w, req)
      [] req.action = "SetTextSelection" -> ArmSetTextSelection(w, req)
      [] req.action = "SetValue" -> ArmSetValue(w, req)
      [] OTHER -> ArmOther(w, req)

\* ------------------------------------------- the arms as a state machine
\* The widgets a request can find at its target, in the states the
\* application and the user can have left them in.
ArmIds == {2, 3}
PatternText(n) == [i \in 1..n |-> IF i % 2 = 1 THEN "a" ELSE "b"]
ArmWidgets ==
    LET blank(k) == BlankWidget(2, k)
    IN  {[blank(k) EXCEPT !.on = b] :
            k \in {"CheckButton", "ToggleButton"}, b \in BOOLEAN}
        \cup {blank("Button"), blank("Frame")}
        \cup {[blank(k) EXCEPT !.val = F64Of(v), !.min = F64Of(0),
                       !.max = F64Of(100), !.step = F64Of(1)] :
                 k \in {"Slider", "Roller"}, v \in {0, 50, 100}}
        \cup UNION {{[blank(k) EXCEPT !.text = PatternText(n), !.pos = p, !.mark = m] :
                        k \in {"Input", "IntInput"}, p \in 0..n, m \in 0..n} :
                    n \in 0..MaxText}
        \cup {blank("TextEditor")}
        \cup UNION {{[blank("TextEditor") EXCEPT !.hasbuf = TRUE,
                         !.text = PatternText(n), !.pos = p, !.sel = sl] :
                        p \in 0..n,
                        sl \in {<<>>} \cup {<<a, b>> : a \in 0..n, b \in 1..n}} :
                    n \in 0..MaxText}
\* The string payloads of SetValue.
Payloads ==
    {<<>>, <<"1">>, <<"0">>, <<"2">>, <<"t", "r", "u", "e">>,
     <<"T", "R", "U", "E">>, <<"o", "n">>, <<"O", "N">>, <<"O", "n">>,
     <<"y", "e", "s">>, <<"Y", "e", "s">>, <<"f", "a", "l", "s", "e">>,
     <<"n", "o">>, <<"y">>, <<"o", "n", " ">>, <<"1", "5", "0">>, <<"5", "0">>,
     <<"-", "5">>, <<"a", "b", "c">>, <<"1", "x">>, <<"-">>,
     <<"1", ".", "5">>, <<".", "5">>, <<"5", ".">>, <<".">>, <<"1", "e", "2">>,
     <<"1", "E", "-", "1">>, <<"1", "e">>, <<"e", "5">>, <<"1", ".", "5", ".">>,
     <<"+", "7">>, <<"-", "0">>, <<" ", "5">>, <<"i", "n", "f">>,
     <<"-", "i", "n", "f">>, <<"I", "n", "f", "i", "n", "i", "t", "y">>,
     <<"n", "a", "n">>, <<"N", "a", "N">>, <<"2", "e", "3", "0", "8">>,
     <<"1", "e", "-", "9", "9", "9">>, <<"3", "e", "-", "3", "2", "4">>}
\* The numeric payloads of SetValue: -5, -0.5, -0.4, 0, 1, 1.5, 2.5, 50,
\* 150, 1e19, an infinity and a NaN.
NumPayloads ==
    {F64Of(0 - 5), F64Near(TRUE, 5, 0 - 1), F64Near(TRUE, 4, 0 - 1), F64Of(0),
     F64Of(1), F64Near(FALSE, 15, 0 - 1), F64Near(FALSE, 25, 0 - 1), F64Of(50),
     F64Of(150), F64Near(FALSE, 1, 19), F64Inf(FALSE), F64NaN(FALSE)}
\* The string payloads of the other actions.
TextPayloads == {<<>>, <<"x">>, <<"a", "b">>, <<"1">>}
\* The action kinds a request can carry; ScrollUp and ScrollDown stand for
\* the kinds the drain loop has no arm for.
ArmActions ==
    {"Click", "Focus", "ReplaceSelectedText", "ScrollIntoView", "ScrollToPoint",
     "SetTextSelection", "SetValue", "ScrollUp", "ScrollDown"}
\* The character offsets of SetTextSelection: every offset up to one past
\* the longest text, and 2^31, 2^32 - 1 and 2^32 + 1.
SelOffsets ==
    {USize(0, k) : k \in 0..(MaxText + 1)}
    \cup {USize(1, 0), USize(1, TwoTo31Less1), USize(2, 1)}
ArmRequests(target) ==
    {[action |-> "SetTextSelection", target |-> target,
      data |-> [type |-> "SetTextSelection",
                anchor |-> [node |-> an, idx |-> a],
                focus |-> [node |-> fn, idx |-> f]]] :
        an \in ArmIds, fn \in ArmIds, a \in SelOffsets, f \in SelOffsets}
    \cup {[action |-> "SetValue", target |-> target,
           data |-> [type |-> "Value", s |-> str]] : str \in Payloads}
    \cup {[action |-> "SetValue", target |-> target,
           data |-> [type |-> "NumericValue", n |-> n]] : n \in NumPayloads}
    \cup {[action |-> a, target |-> target, data |-> [type |-> "None"]] :
             a \in ArmActions}
    \cup {[action |-> a, target |-> target,
           data |-> [type |-> "Value", s |-> str]] :
             a \in ArmActions \ {"SetValue"}, str \in TextPayloads}
    \cup {[action |-> a, target |-> target,
           data |-> [type |-> "NumericValue", n |-> F64Of(1)]] :
             a \in {"ReplaceSelectedText", "SetTextSelection", "ScrollUp"}}
    \cup {[action |-> a, target |-> target,
           data |-> [type |-> "SetTextSelection",
                     anchor |-> [node |-> target, idx |-> USize(0, 0)],
                     focus |-> [node |-> target, idx |-> USize(0, 1)]]] :
             a \in {"SetValue", "ReplaceSelectedText", "ScrollToPoint"}}

InitArms ==
    /\ AttachedStart
    /\ tw \in {w \in ArmWidgets : w.sel = <<>> \/ w.sel[1] < w.sel[2]}
    /\ tw_before = tw
    /\ areq = NoRequest
    /\ bw = NoArm /\ bnodes = <<>>
    /\ PlatformInit("unix")
\* One iteration of the drain loop on a request addressed to the widget;
\* every widget state of ArmWidgets is paired with every request once.
ArmApply(req) ==
    /\ areq = NoRequest
    /\ tw' = ApplyArm(tw, req)
    /\ tw_before' = tw
    /\ areq' = req
    /\ last' = "ArmApply"
    /\ UNCHANGED <<widgetVars, builderVars, consumerVars, dispatchVars, snap,
                   offered, attachIds, counterVars, gen, buildVars, platVars>>
NextArms == areq = NoRequest /\ \E req \in ArmRequests(tw.id) : ArmApply(req)
SpecArms == InitArms /\ [][NextArms]_vars

\* ======================================================================
\* The node builder on one widget
\* ======================================================================
\* A widget as the builder reads it: its address and kind; release: its
\* trigger() contains CallbackTrigger::Release; takesevents, visible_focus:
\* it accepts input events, and shows a focus indicator when focused; image:
\* it has an image; items: the entries of a menu widget, each with its own
\* address, submenus with the addresses of their entries.
BuildWidget(id, k, release, takesevents, visible_focus, image, items) ==
    [id |-> id, kind |-> k, release |-> release, takesevents |-> takesevents,
     visible_focus |-> visible_focus, image |-> image, items |-> items]
\* node_widget_common: Click is added when the trigger contains Release.
ClickIfRelease(w) == IF w.release THEN {"Click"} ELSE {}
\* T's make_node on the widget w: the role and actions of T, then
\* node_widget_common, which returns the id and pushes every child.
MakeNodeOf(T, w, children) ==
    [id |-> NodeIdOf(w.id),
     role |-> MakeNodeRole(T, w.image),
     actions |-> MakeNodeActions(T) \cup ClickIfRelease(w),
     children |-> children]
\* node_for_widget
NodeForWidgetOf(w, children) ==
    IF FirstTry(w.kind) = "None" THEN <<>>
    ELSE <<MakeNodeOf(FirstTry(w.kind), w, children)>>
\* The id of an item node: the item's own address.
ItemIds(items) == [i \in 1..Len(items) |-> items[i].id]
ItemNode(id, role, children) ==
    [id |-> id, role |-> role, actions |-> {}, children |-> children]
\* nodes_for_widget, Choice: one ListBoxOption per item.
ChoiceItemNodes(items) ==
    [i \in 1..Len(items) |-> ItemNode(items[i].id, "ListBoxOption", <<>>)]
\* nodes_for_widget, menu bars and menu button: a submenu gives a MenuItem
\* per entry and then its Menu node, another item gives a MenuItem.
RECURSIVE MenuItemNodes(_)
MenuItemNodes(items) ==
    IF items = <<>> THEN <<>>
    ELSE LET item == Head(items) IN
         (IF item.submenu
          THEN [j \in 1..Len(item.subs) |-> ItemNode(item.subs[j], "MenuItem", <<>>)]
               \o <<ItemNode(item.id, "Menu", item.subs)>>
          ELSE <<ItemNode(item.id, "MenuItem", <<>>)>>)
         \o MenuItemNodes(Tail(items))
\* The node of the menu widget itself, pushed after those of its items.
CompositeNode(w, role, actions) ==
    [id |-> NodeIdOf(w.id), role |-> role,
     actions |-> actions \cup ClickIfRelease(w), children |-> ItemIds(w.items)]
\* nodes_for_widget
NodesForWidget(w) ==
    IF IsPtrOf(w.kind, "Choice")
    THEN ChoiceItemNodes(w.items) \o <<CompositeNode(w, "ComboBox", {"Focus", "SetValue"})>>
    ELSE IF IsPtrOf(w.kind, "MenuBar")
    THEN MenuItemNodes(w.items) \o <<CompositeNode(w, "MenuBar", {"Focus"})>>
    ELSE IF IsPtrOf(w.kind, "SysMenuBar")
    THEN MenuItemNodes(w.items) \o <<CompositeNode(w, "MenuBar", {"Focus"})>>
    ELSE IF IsPtrOf(w.kind, "MenuButton")
    THEN MenuItemNodes(w.items) \o <<CompositeNode(w, "Button", {"Focus", "Click"})>>
    ELSE NodeForWidgetOf(w, <<>>)

\* ------------------------------------- the node builder as a state machine
\* The address of the widget handed to the builder, and the addresses of
\* its menu items and of the children passed to make_node.
BuildId == 2
ItemPtr(i) == 10 + i
ItemLists ==
    {<<>>,
     <<[id |-> ItemPtr(1), submenu |-> FALSE, subs |-> <<>>]>>,
     <<[id |-> ItemPtr(1), submenu |-> FALSE, subs |-> <<>>],
       [id |-> ItemPtr(2), submenu |-> TRUE, subs |-> <<ItemPtr(3)>>]>>}
\* The types nodes_for_widget tests, in its order.
MenuKinds == {"Choice", "MenuBar", "SysMenuBar", "MenuButton"}
\* Spinner stands for the kinds without an Accessible implementation.
BuildKinds == ImplKinds \cup MenuKinds \cup {"Spinner"}
BuildWidgets ==
    {BuildWidget(BuildId, k, r, t, v, i, items) :
        k \in BuildKinds, r \in BOOLEAN, t \in BOOLEAN, v \in BOOLEAN,
        i \in BOOLEAN, items \in ItemLists}
ChildLists == {<<>>, <<3>>, <<3, 4>>}
BuildSteps == {"NodesForWidget", "NodeForWidget", "MakeNode"}

InitBuild ==
    /\ AttachedStart
    /\ tw = NoArm /\ tw_before = NoArm /\ areq = NoRequest
    /\ bw \in {w \in BuildWidgets :
                  /\ w.image => w.kind = "Frame"
                  /\ w.items # <<>> => w.kind \in MenuKinds}
    /\ bnodes = <<>>
    /\ PlatformInit("unix")
Built(nodes, step) ==
    /\ last \notin BuildSteps
    /\ bnodes' = nodes
    /\ last' = step
    /\ UNCHANGED <<widgetVars, builderVars, consumerVars, dispatchVars, snap,
                   offered, attachIds, counterVars, gen, armVars, bw, platVars>>
\* accessible::nodes_for_widget(&w)
CallNodesForWidget == Built(NodesForWidget(bw), "NodesForWidget")
\* accessible::node_for_widget(&w, children)
CallNodeForWidget(children) == Built(NodeForWidgetOf(bw, children), "NodeForWidget")
\* Accessible::make_node on the widget's own type
CallMakeNode(children) ==
    /\ bw.kind \in ImplKinds
    /\ Built(<<MakeNodeOf(bw.kind, bw, children)>>, "MakeNode")
NextBuild ==
    \/ CallNodesForWidget
    \/ \E children \in ChildLists : CallNodeForWidget(children)
    \/ \E children \in ChildLists : CallMakeNode(children)
SpecBuild == InitBuild /\ [][NextBuild]_vars

\* ======================================================================
\* The collector over widgets of many kinds
\* ======================================================================
\* The kinds the application builds its window from: a container without a
\* node of its own and one with, a button, a range widget, a menu widget.
TreeKinds == {"Group", "Window", "Button", "Slider", "Choice"}
\* The entries of the menu widget at address p.
ItemsOf(p) ==
    IF kind[p] \in MenuKinds
    THEN <<[id |-> ItemPtr(p), submenu |-> FALSE, subs |-> <<>>]>>
    ELSE <<>>
\* The application creates a widget of kind k at the next free address and
\* adds it at the end of group g, before attach().
NewWidget(p, g, k) ==
    /\ phase = "builder"
    /\ p \in Ptrs \ live /\ \A q \in 1..(p - 1) : q \in live
    /\ g \in live /\ IsGroup(kind[g])
    /\ live' = live \cup {p}
    /\ kind' = [kind EXCEPT ![p] = k]
    /\ kids' = [kids EXCEPT ![g] = Append(@, p)]
    /\ par' = [par EXCEPT ![p] = g]
    /\ last' = "Other" /\ NoSnapshot
    /\ UNCHANGED <<focus, w_val, w_clicks, w_label, builderVars, consumerVars,
                   dispatchVars, attachIds, gen, armVars, buildVars, platVars, counterVars>>
NextTree ==
    \/ \E p \in Ptrs, g \in Ptrs, k \in TreeKinds : NewWidget(p, g, k)
    \/ \E w \in Ptrs : ExcludeWidget(w)
    \/ Attach
    \/ RunWithAccessibility
    \/ KeyUp
SpecTree == Init /\ [][NextTree]_vars

\* ======================================================================
\* Properties
\* ======================================================================

\* C1: a widget marked "exclude subtree" beneath the root, and every widget
\* it contains at any depth, is absent from the node list built by attach()
\* (the initial tree) and from the node list built on every KeyUp.
C1_SubtreeNeverCollected ==
    /\ snap # <<>> =>
          \A w \in live :
             (UnderRoot(w) /\ \E a \in SelfAndAncestorsBelowRoot(w) : MarkedSubtree(a))
                => w \notin Ids(snap)
    /\ last = "Attach" => wids = snap
\* C1 witness: a KeyUp snapshot was built while a recognized widget sat two
\* levels below a group marked "exclude subtree".
C1_Witness ==
    /\ last = "KeyUp" /\ snap # <<>>
    /\ \E g \in ex_subtree, d \in live :
          /\ UnderRoot(g) /\ g \in AncestorsOf(d) /\ par[d] # g
          /\ HasNodeMapping(kind[d])

\* C2 (as claimed): an individually excluded container that is not marked
\* "exclude subtree" has no node, and every recognized, non-excluded widget
\* inside it is in the collected node set.
C2_Original ==
    snap # <<>> =>
       \A c \in live :
          (UnderRoot(c) /\ IsGroup(kind[c]) /\ MarkedIndividually(c) /\ ~MarkedSubtree(c))
             => /\ c \notin Ids(snap)
                /\ \A d \in DescendantsOf(c) : d \in DocumentedIds => d \in Ids(snap)

\* C3: a widget beneath the root that matches an individual exclusion, by
\* identity or by a registered predicate, is a key of no node list built by
\* attach() or on KeyUp.
C3_IndividuallyExcludedNeverKey ==
    /\ snap # <<>> =>
          \A w \in live : (UnderRoot(w) /\ MarkedIndividually(w)) => w \notin Ids(snap)
    /\ last = "Attach" => wids = snap
\* C3 witness: a KeyUp snapshot was built while a recognized widget beneath
\* the root matched a registered predicate and no identity exclusion.
C3_Witness ==
    /\ last = "KeyUp" /\ snap # <<>>
    /\ \E w \in live :
          /\ UnderRoot(w) /\ HasNodeMapping(kind[w])
          /\ w \notin ex_ptrs /\ \E P \in ex_preds : PredHolds(P, w)

\* C4 (as claimed): the initial tree holds one node per recognized,
\* non-excluded widget under the window plus the root; its root is the
\* window; the root's children are exactly the window's top-level child
\* nodes; the focus id is the root's when no widget has focus.
NearestNodeAncestor(w) ==
    LET withNode == {a \in AncestorsOf(w) : a \in DOMAIN c_nodes}
    IN IF withNode = {} THEN 0
       ELSE CHOOSE a \in withNode : \A b \in withNode : b = a \/ b \in AncestorsOf(a)
TopLevelNodeIds ==
    {w \in (DOMAIN c_nodes) \ {RootPtr} : NearestNodeAncestor(w) = RootPtr}
C4_Original ==
    last = "Activate" =>
       /\ DOMAIN c_nodes = DocumentedIds \cup {RootPtr}
       /\ c_root = RootPtr
       /\ Range(c_nodes[RootPtr].children) = TopLevelNodeIds
       /\ focus = 0 => c_focus = RootPtr

\* C5: in the consumer's cumulative tree the designated root is a node of
\* role Window and every child id any node lists is a key of the node set.
C5_CumulativeTreeWellFormed ==
    c_root # 0 =>
       /\ c_root \in DOMAIN c_nodes
       /\ c_nodes[c_root].role = "Window"
       /\ \A id \in DOMAIN c_nodes : Range(c_nodes[id].children) \subseteq DOMAIN c_nodes
\* C5 witness: after the initial tree and a change of the widgets, a KeyUp
\* update with other nodes than the initial tree's was delivered, and the
\* root lists children.
C5_Witness ==
    /\ last = "KeyUp" /\ active /\ offered # NoUpdate
    /\ Ids(offered.nodes) # Ids(wids)
    /\ Len(c_nodes[c_root].children) > 0

\* C6 (as claimed): every KeyUp offers the transport a snapshot whose focus id
\* is the focused widget's, or the root's when no widget has focus.
C6_KeyUpAlwaysOffersWithFocus ==
    last = "KeyUp" =>
       /\ offered # NoUpdate
       /\ offered.focus = (IF focus # 0 THEN focus ELSE RootPtr)

\* C7: the consumer's tree changes only by a KeyUp update built while the
\* consumer is active or by an initial-tree pull; a KeyUp while it is
\* inactive changes nothing, and a later activation delivers the stored
\* initial tree, not the update that was skipped.
C7_DeliveredOnlyIfActive ==
    [][ /\ (c_nodes' # c_nodes \/ c_root' # c_root \/ c_focus' # c_focus)
           => \/ last' = "KeyUp" /\ active /\ offered' # NoUpdate
              \/ last' = "Activate"
        /\ (last' = "KeyUp" /\ ~active) => UNCHANGED <<c_nodes, c_root, c_focus>>
        /\ last' = "Activate" => DOMAIN c_nodes' = Ids(wids)
      ]_vars
\* C7 witness: a KeyUp update was built and skipped while the consumer, which
\* had been active before, was inactive; its tree still lacks what the
\* skipped update held.
C7_Witness ==
    /\ last = "KeyUp" /\ ~active /\ offered # NoUpdate
    /\ c_root # 0
    /\ Ids(offered.nodes) # DOMAIN c_nodes

\* C8: do_action only enqueues and wakes and touches no widget; a request
\* leaves the queue, and the UI state changes, only in a step of the drain
\* loop on the UI thread; the dispatcher moves Idle -> Queued -> Draining ->
\* Idle (a wake that finds the queue already drained goes Idle -> Draining).
DispState ==
    IF ui_pc \in {"draining", "callback"} THEN "Draining"
    ELSE IF queue # <<>> THEN "Queued" ELSE "Idle"
DispSuccessors(st) ==
    CASE st = "Idle" -> {"Idle", "Queued", "Draining"}
      [] st = "Queued" -> {"Queued", "Draining"}
      [] st = "Draining" -> {"Draining", "Idle"}
C8_MutationOnlyInDrain ==
    [][ /\ (widgetVars' # widgetVars) =>
              (ui_pc = "draining" /\ last' \in {"DrainStep", "ClickEnter"})
        /\ (Len(queue') < Len(queue)) =>
              (ui_pc = "draining" /\ last' \in {"DrainStep", "ClickEnter"})
        /\ last' \in {"DoActionSend", "DoActionAwake"} =>
              /\ UNCHANGED <<widgetVars, ui_pc, napplied>>
              /\ queue' = queue \/ (Len(queue') = Len(queue) + 1 /\ awake' = awake)
        /\ DispState' \in DispSuccessors(DispState)
      ]_vars
\* C8 witness: a drain step has invoked a widget's callback while the
\* transport thread was inside do_action with its request already queued.
C8_Witness ==
    /\ last = "ClickEnter" /\ t_pc = "sent" /\ queue # <<>>
    /\ \E p \in Ptrs : w_clicks[p] > 0

\* C9 (as claimed): every request passed to do_action is eventually applied,
\* the first and every later one, when the UI thread keeps running.
C9_EveryRequestApplied ==
    \A n \in 1..MaxReq : (nsent >= n) ~> (napplied >= n)

\* C10: when a drain pass returns, the queue is empty and every request
\* enqueued before the pass started has been applied; no request is dropped.
C10_PassDrainsWholeQueue ==
    [][ /\ (ui_pc = "draining" /\ ui_pc' = "idle") =>
              (queue' = <<>> /\ napplied' >= sentAtWake)
        /\ nsent' = napplied' + Len(queue')
      ]_vars
\* C10 witness: a drain pass that started with several requests waiting
\* behind one wake has returned.
C10_Witness ==
    /\ last = "DrainEnd" /\ queuedAtWake >= 2 /\ ui_pc = "idle"

\* C13: the id of a live widget is a function of the widget alone, two live
\* widgets never share an id, and the id in a node, the focus id of an
\* update and the address the dispatcher resolves a target to all agree:
\* every node list holds one node per collected widget under that widget's
\* id, and the focus id offered or pulled is the focused widget's node id.
C13_IdentityStableUnique ==
    /\ \A p, q \in live : p # q => NodeIdOf(p) # NodeIdOf(q)
    /\ \A p \in live : FocusIdOf(p) = NodeIdOf(p) /\ WidgetAt(NodeIdOf(p)) = p
    /\ snap # <<>> =>
          /\ Ids(snap) = {NodeIdOf(w) : w \in ExpectedIds \cup {RootPtr}}
          /\ Cardinality(Ids(snap)) = Len(snap)
    /\ offered # NoUpdate => offered.focus = NodeIdOf(focus)
    /\ (last = "Activate" /\ focus # 0) => c_focus = NodeIdOf(focus)
\* C13 witness: a KeyUp update with several nodes was offered while the
\* focus was on a widget that has a node of its own.
C13_Witness ==
    /\ last = "KeyUp" /\ offered # NoUpdate /\ Len(snap) >= 2
    /\ focus # RootPtr /\ NodeIdOf(focus) \in Ids(snap)

\* C11 (as claimed): a request whose target is the address of no live widget
\* is a silent no-op: no widget's state changes, the address is not
\* dereferenced (nothing undefined happens), and the drain goes on with the
\* next request.
C11_StaleTargetIsNoOp ==
    [][ (ui_pc = "draining" /\ queue # <<>> /\ Head(queue).target \notin live
         /\ queue' = Tail(queue))
        => (UNCHANGED widgetVars /\ ui_pc' = "draining") ]_vars

\* C12 (as claimed): a request is applied only to the widget it was issued
\* for, never to a widget created at the same address after that one was
\* deleted.
C12_NeverAppliedToLaterWidget ==
    [][ (last' \in {"DrainStep", "ClickEnter"} /\ queue' = Tail(queue) /\ queue # <<>>)
        => Head(queue).inc = gen[Head(queue).target] ]_vars

\* The selection and the caret a text widget shows.
SelectionOf(w) ==
    IF w.kind = "TextEditor" THEN w.sel
    ELSE IF w.pos = w.mark THEN <<>>
    ELSE <<MinOf(w.pos, w.mark), MaxOf(w.pos, w.mark)>>
CaretOf(w) == w.pos
IsTextWidget(w) == w.kind \in {"Input", "IntInput", "TextEditor"}
Applied(action, type) ==
    last = "ArmApply" /\ areq.action = action /\ areq.data.type = type

\* C14: SetValue with a string payload leaves a check or toggle button on
\* exactly when the payload, letter case ignored, is "1", "true", "on" or
\* "yes", and off for every other payload.
C14_BooleanSetValue ==
    (Applied("SetValue", "Value") /\ tw.kind \in {"CheckButton", "ToggleButton"})
       => /\ tw.on = (areq.data.s \in
                        {<<"1">>, <<"t", "r", "u", "e">>, <<"T", "R", "U", "E">>,
                         <<"o", "n">>, <<"O", "N">>, <<"O", "n">>,
                         <<"y", "e", "s">>, <<"Y", "e", "s">>})
          /\ tw = [tw_before EXCEPT !.on = tw.on]
\* C14 witness: "ON" switched on a check button that was off.
C14_Witness ==
    /\ Applied("SetValue", "Value") /\ areq.data.s = <<"O", "N">>
    /\ tw.kind = "CheckButton" /\ ~tw_before.on /\ tw.on

\* C15 (as claimed): after SetValue on a range widget its value lies within
\* the widget's bounds, for every numeric payload.
IsRangeWidget(w) == w.kind \in {"Slider", "Roller"}
C15_ValueStaysInRange ==
    (last = "ArmApply" /\ areq.action = "SetValue" /\ IsRangeWidget(tw))
       => (F64Le(tw.min, tw.val) /\ F64Le(tw.val, tw.max))

\* C16 (as claimed): SetValue with a string payload on a range-family widget
\* sets the value to the number the string parses to and changes nothing
\* else, and changes nothing at all when the string does not parse.
C16_StringSetsValueOrNothing ==
    (Applied("SetValue", "Value") /\ IsRangeWidget(tw))
       => IF ParseF64(areq.data.s).ok
          THEN tw = [tw_before EXCEPT !.val = ParseF64(areq.data.s).val]
          ELSE tw = tw_before

\* The offsets of a selection request that names the target at both ends.
Targeted ==
    /\ Applied("SetTextSelection", "SetTextSelection")
    /\ areq.data.anchor.node = areq.target /\ areq.data.focus.node = areq.target
\* min(requested, length) for a requested offset.
Capped(idx, len) == IF idx.hi > 0 THEN len ELSE MinOf(idx.lo, len)
TextLen(w) == Len(w.text)

\* C17 (as claimed): SetTextSelection with different anchor and focus, both
\* inside the text, selects the ordered range and leaves the caret at its
\* high end, on inputs and on editors.
C17_RangeSelectedCaretHigh ==
    (/\ Targeted /\ IsTextWidget(tw)
     /\ areq.data.anchor.idx.hi = 0 /\ areq.data.focus.idx.hi = 0
     /\ areq.data.anchor.idx.lo <= TextLen(tw)
     /\ areq.data.focus.idx.lo <= TextLen(tw)
     /\ areq.data.anchor.idx.lo # areq.data.focus.idx.lo)
       => /\ SelectionOf(tw) =
                <<MinOf(areq.data.anchor.idx.lo, areq.data.focus.idx.lo),
                  MaxOf(areq.data.anchor.idx.lo, areq.data.focus.idx.lo)>>
          /\ CaretOf(tw) = MaxOf(areq.data.anchor.idx.lo, areq.data.focus.idx.lo)

\* C18 (as claimed): each requested offset is applied as min(requested,
\* length), also when it exceeds the signed 32-bit range: the selection is
\* the range between the two capped offsets and the caret is at one of them.
C18_OffsetsCappedAtLength ==
    (Targeted /\ IsTextWidget(tw))
       => \E a \in {Capped(areq.data.anchor.idx, TextLen(tw))},
             f \in {Capped(areq.data.focus.idx, TextLen(tw))} :
             /\ SelectionOf(tw) = IF a = f THEN <<>> ELSE <<MinOf(a, f), MaxOf(a, f)>>
             /\ CaretOf(tw) \in {a, f}

\* C19: a SetTextSelection whose anchor node or focus node is not the
\* request's target changes nothing of the widget.
C19_OtherNodeChangesNothing ==
    (/\ Applied("SetTextSelection", "SetTextSelection")
     /\ (areq.data.anchor.node # areq.target \/ areq.data.focus.node # areq.target))
       => tw = tw_before
\* C19 witness: a request naming the target as anchor node and another node
\* as focus node, with offsets that are not the current selection, was
\* drained on a text widget with text.
C19_Witness ==
    /\ Applied("SetTextSelection", "SetTextSelection")
    /\ areq.data.anchor.node = areq.target /\ areq.data.focus.node # areq.target
    /\ IsTextWidget(tw) /\ TextLen(tw) >= 2
    /\ areq.data.anchor.idx = USize(0, 0) /\ areq.data.focus.idx = USize(0, 2)
    /\ SelectionOf(tw) # <<0, 2>>

\* C20: SetTextSelection whose anchor and focus are equal once capped at the
\* length leaves no selection and the caret at that offset, on inputs and on
\* editors.
C20_EqualOffsetsMoveCaret ==
    (/\ Targeted /\ IsTextWidget(tw)
     /\ areq.data.anchor.idx.hi = 0 /\ areq.data.focus.idx.hi = 0
     /\ MinOf(areq.data.anchor.idx.lo, TextLen(tw))
           = MinOf(areq.data.focus.idx.lo, TextLen(tw)))
       => /\ SelectionOf(tw) = <<>>
          /\ CaretOf(tw) = MinOf(areq.data.anchor.idx.lo, TextLen(tw))
\* C20 witness: an editor that had a selection lost it to a caret move to
\* another offset.
C20_Witness ==
    /\ Targeted /\ tw.kind = "TextEditor"
    /\ areq.data.anchor.idx = areq.data.focus.idx /\ areq.data.anchor.idx.hi = 0
    /\ SelectionOf(tw_before) # <<>> /\ SelectionOf(tw) = <<>>
    /\ CaretOf(tw) # CaretOf(tw_before)

\* A text widget that has a text to edit: an input, or an editor with a
\* buffer.
HoldsText(w) == IsTextWidget(w) /\ (w.kind = "TextEditor" => w.hasbuf)
ReplaceApplied == Applied("ReplaceSelectedText", "Value") /\ HoldsText(tw_before)

\* C21: ReplaceSelectedText on a text widget with no selection and the caret
\* at offset p inserts the payload at p, leaves the text before and after p
\* as it was, and moves the caret to p + length(payload).
C21_InsertAtCaret ==
    (ReplaceApplied /\ SelectionOf(tw_before) = <<>>)
       => /\ tw.text = SubSeq(tw_before.text, 1, CaretOf(tw_before))
                         \o areq.data.s
                         \o SubSeq(tw_before.text, CaretOf(tw_before) + 1,
                                   Len(tw_before.text))
          /\ CaretOf(tw) = CaretOf(tw_before) + Len(areq.data.s)
\* C21 witness: "ab" was inserted into an input whose caret stood at offset
\* 3 with text behind it; the caret is at 5.
C21_Witness ==
    /\ ReplaceApplied /\ SelectionOf(tw_before) = <<>>
    /\ tw_before.kind = "Input" /\ CaretOf(tw_before) = 3
    /\ Len(tw_before.text) > 3
    /\ areq.data.s = <<"a", "b">>
    /\ CaretOf(tw) = 5 /\ Len(tw.text) = Len(tw_before.text) + 2

\* C22 (as claimed): ReplaceSelectedText on a text widget with a selection
\* [lo, hi] replaces exactly that range with the payload, leaves no
\* selection and puts the caret at lo + length(payload), on editors and on
\* inputs, whichever end of the selection the caret was on.
C22_ReplaceSelection ==
    (ReplaceApplied /\ SelectionOf(tw_before) # <<>>)
       => /\ tw.text = SubSeq(tw_before.text, 1, SelectionOf(tw_before)[1])
                         \o areq.data.s
                         \o SubSeq(tw_before.text, SelectionOf(tw_before)[2] + 1,
                                   Len(tw_before.text))
          /\ SelectionOf(tw) = <<>>
          /\ CaretOf(tw) = SelectionOf(tw_before)[1] + Len(areq.data.s)

\* The payload of the request applied last is of the type its action reads.
PayloadFits ==
    \/ areq.action = "SetValue" /\ areq.data.type \in {"Value", "NumericValue"}
    \/ areq.action = "ReplaceSelectedText" /\ areq.data.type = "Value"
    \/ areq.action = "SetTextSelection" /\ areq.data.type = "SetTextSelection"

\* C23: SetValue, ReplaceSelectedText or SetTextSelection addressed to a
\* frame or a plain button, or carrying a payload of another type than the
\* action reads, changes nothing of the widget.
C23_UnmatchedIsNoOp ==
    (/\ last = "ArmApply"
     /\ areq.action \in {"SetValue", "ReplaceSelectedText", "SetTextSelection"}
     /\ (tw_before.kind \in {"Frame", "Button"} \/ ~PayloadFits))
       => tw = tw_before
\* C23 witness: SetValue "150" was drained on a plain button.
C23_Witness ==
    /\ Applied("SetValue", "Value") /\ areq.data.s = <<"1", "5", "0">>
    /\ tw_before.kind = "Button"

\* C24: ScrollToPoint and the action kinds the drain loop has no arm for
\* change nothing of any widget, whatever payload they carry.
C24_ScrollAndUnknownAreNoOps ==
    (last = "ArmApply" /\ areq.action \in {"ScrollToPoint", "ScrollUp", "ScrollDown"})
       => tw = tw_before
\* C24 witness: ScrollUp with the payload "1" was drained on a check button
\* that was off.
C24_Witness ==
    /\ Applied("ScrollUp", "Value") /\ areq.data.s = <<"1">>
    /\ tw_before.kind = "CheckButton" /\ ~tw_before.on

\* The nodes built last for the widget itself (not for its menu items).
OwnNodes == {bnodes[i] : i \in {j \in 1..Len(bnodes) : bnodes[j].id = NodeIdOf(bw.id)}}

\* C25 (as claimed): a node the builder returns for a widget carries Focus
\* only if the widget accepts input events and shows a focus indicator.
C25_FocusOnlyIfFocusable ==
    last \in BuildSteps =>
       \A n \in OwnNodes : "Focus" \in n.actions => (bw.takesevents /\ bw.visible_focus)

\* C26 (as claimed): a node the builder returns for a widget carries Click
\* exactly when the widget's trigger contains Release.
C26_ClickIffRelease ==
    last \in BuildSteps =>
       \A n \in OwnNodes : ("Click" \in n.actions) <=> bw.release

\* A node list was built by the step just taken.
Collected == last \in {"Attach", "KeyUp"}
\* The widget is beneath the root and neither it nor a widget that contains
\* it is excluded, individually or with its subtree.
Exposed(w) ==
    /\ w \in live /\ UnderRoot(w)
    /\ \A a \in SelfAndAncestorsBelowRoot(w) : ~MarkedIndividually(a) /\ ~MarkedSubtree(a)
SnapNode(id) == snap[CHOOSE i \in 1..Len(snap) : snap[i].id = id]

\* C27 (as claimed): every exposed widget of a kind with a documented node
\* mapping is a node of the collected list, under the documented role, and
\* widgets of the other kinds are not.
C27_MappedKindsCollected ==
    Collected =>
       \A w \in live : Exposed(w) =>
          /\ kind[w] \in ImplKinds \ MenuKinds =>
                /\ w \in Ids(snap)
                /\ SnapNode(w).role = MakeNodeRole(kind[w], FALSE)
          /\ kind[w] \notin ImplKinds \cup MenuKinds => w \notin Ids(snap)

\* The nearest widget containing w that has a node in the collected list.
NearestSnapAncestor(w) ==
    LET withNode == {a \in AncestorsOf(w) : a \in Ids(snap)}
    IN IF withNode = {} THEN 0
       ELSE CHOOSE a \in withNode : \A b \in withNode : b = a \/ b \in AncestorsOf(a)
\* C28 (as claimed): every node of the collected list lists as children
\* exactly the nodes whose nearest widget with a node is its own widget.
C28_ChildrenAreNearestDescendants ==
    Collected =>
       \A i \in 1..Len(snap) :
          Range(snap[i].children) =
             {w \in Ids(snap) : NearestSnapAncestor(w) = snap[i].id}

\* The role of the container node of a menu widget.
CompositeRole(k) ==
    CASE k = "Choice" -> "ComboBox"
      [] k \in {"MenuBar", "SysMenuBar"} -> "MenuBar"
      [] k = "MenuButton" -> "Button"
\* C29 (as claimed): an exposed menu widget is collected as a container
\* node plus one node per entry, each entry under its own address and
\* listed as a child of the container.
C29_CompositeExpanded ==
    Collected =>
       \A w \in live : (Exposed(w) /\ kind[w] \in MenuKinds) =>
          /\ w \in Ids(snap)
          /\ SnapNode(w).role = CompositeRole(kind[w])
          /\ \A i \in 1..Len(ItemsOf(w)) :
                /\ ItemsOf(w)[i].id \in Ids(snap)
                /\ ItemsOf(w)[i].id \in Range(SnapNode(w).children)

\* C30: an exposed plain group has no node in the collected list, and
\* every exposed button or window inside it, at any depth, has one.
C30_PlainContainerTransparent ==
    Collected =>
       \A g \in live : (Exposed(g) /\ kind[g] = "Group") =>
          /\ g \notin Ids(snap)
          /\ \A w \in DescendantsOf(g) :
                (Exposed(w) /\ kind[w] \in {"Button", "Window"}) =>
                   /\ w \in Ids(snap)
                   /\ SnapNode(w).role = kind[w]
\* C30 witness: a KeyUp snapshot holds the node of a button that sits in a
\* plain group inside a plain group under the window.
C30_Witness ==
    /\ last = "KeyUp"
    /\ \E g \in live, f \in live, b \in live :
          /\ par[g] = RootPtr /\ par[f] = g /\ par[b] = f
          /\ kind[g] = "Group" /\ kind[f] = "Group" /\ kind[b] = "Button"
          /\ Exposed(b) /\ b \in Ids(snap) /\ g \notin Ids(snap) /\ f \notin Ids(snap)

\* C31 (as claimed): the initial tree the transport pulls holds the nodes of
\* the widgets that are under the window at the moment of the pull: it is
\* the node list a collection run at that moment builds.
C31_InitialTreeIsCurrent ==
    last = "Activate" =>
       /\ DOMAIN c_nodes = Ids(Collect)
       /\ \A id \in Ids(Collect) : c_nodes[id] = NodeOf(Collect, id)

\* C32 (as claimed): the focus id of every update the consumer receives,
\* the initial tree and each delivered KeyUp update, is the id of a node of
\* the consumer's cumulative node set.
C32_FocusIsANode ==
    (last = "Activate" \/ (last = "KeyUp" /\ active /\ offered # NoUpdate)) =>
       c_focus \in DOMAIN c_nodes

\* C33 (as claimed): the initial-tree pull, which the transport runs on its
\* own thread, reads no UI state: the update it returns is the same
\* whichever widget holds the input focus, or none.
C33_PullIndependentOfFocus ==
    last = "Activate" =>
       \A f \in live \cup {0} : RequestInitialTreeSeeing(f).focus = c_focus

\* C34 (as claimed): once the drain loop has applied a request that moved
\* the input focus, the consumer's view comes to show the widget that now
\* holds it, with no key released by the user.
C34_ActionEventuallyPublished ==
    (last = "DrainStep" /\ focus # 0 /\ c_focus # FocusIdOf(focus))
       ~> (c_focus = FocusIdOf(focus))

\* C35: the requests are applied in the order of their calls of do_action,
\* each once: the k-th application applies the k-th request passed to
\* do_action and takes it off the queue, a call of do_action puts its
\* request behind those waiting, and the requests waiting are at all times
\* those passed and not yet applied, in the order of their calls.
C35_AppliedInSendOrder ==
    [][ /\ napplied' # napplied =>
              /\ queue # <<>> /\ napplied' = napplied + 1
              /\ Head(queue).seq = napplied'
              /\ queue' = Tail(queue)
              /\ WidgetState' = ApplyAction(Head(queue))
        /\ nsent' # nsent =>
              /\ nsent' = nsent + 1 /\ Len(queue') = Len(queue) + 1
              /\ \A i \in 1..Len(queue) : queue'[i] = queue[i]
        /\ \A i \in 1..Len(queue') : queue'[i].seq = napplied' + i
      ]_vars
\* C35 witness: a drain pass has applied two requests of different kinds
\* that had accumulated, and a call of do_action has queued a third
\* request behind the pass.
C35_Witness ==
    /\ last = "DrainStep" /\ napplied = 2 /\ queuedAtWake = 2
    /\ focus # 0 /\ \E p \in Ptrs : w_clicks[p] > 0
    /\ Len(queue) = 1 /\ queue[1].seq = 3

\* C36: attach(), a KeyUp collection and the initial-tree pull change no
\* widget: the values, the callback counts, the focus and the hierarchy
\* are after the step what they were before it.
C36_SnapshotLeavesWidgets ==
    [][ last' \in {"Attach", "KeyUp", "Activate"} => UNCHANGED widgetVars ]_vars
\* C36 witness: a KeyUp collection over a window with a nested widget, one
\* of them focused, has built a node list and offered it.
C36_Witness ==
    /\ last = "KeyUp" /\ offered # NoUpdate /\ Len(snap) >= 2
    /\ focus \notin {0, RootPtr}
    /\ \E w \in live : par[w] \notin {0, RootPtr}

\* C37: on the two subclassing backends a call of update_if_active, from
\* the KeyUp handler or from the application, raises the events of the
\* update exactly when the adapter delivered it, within the same call, and
\* raises nothing when the update was skipped or none was offered; on the
\* session/socket backend an update is delivered with nothing raised.
C37_RaiseFollowsDelivery ==
    [][ last' \in {"KeyUp", "UpdateIfActive"} =>
           LET delivered == offered' # NoUpdate /\ active
           IN /\ (Subclassing(backend) /\ delivered) => raised' = offered'
              /\ (Subclassing(backend) /\ ~delivered) => raised' = NoUpdate
              /\ ~Subclassing(backend) => raised' = NoUpdate
              /\ delivered => (c_focus' = offered'.focus
                                /\ Ids(offered'.nodes) \subseteq DOMAIN c_nodes')
      ]_vars
\* C37 witness: on a subclassing backend a KeyUp update with a leaf node was
\* delivered to an active consumer and its events were raised.
C37_Witness ==
    /\ last = "KeyUp" /\ Subclassing(backend) /\ active
    /\ raised # NoUpdate /\ raised = offered /\ Len(raised.nodes) >= 2

\* C38: no borrow_mut of the platform adapter or of the action receiver
\* finds a mutable borrow of the same cell alive: no step panics, the
\* platform adapter is borrowed only within a call, and the receiver is
\* borrowed between steps only while a widget's callback runs.
C38_NoDoubleBorrow ==
    /\ ui_pc # "panicked"
    /\ "adapter" \notin held
    /\ ("rx" \in held) <=> (ui_pc = "callback")
\* C38 witness: while the callback of a clicked widget ran, with the
\* receiver borrowed, the event loop it ran handled a wake and then
\* published a KeyUp update through the platform adapter.
C38_Witness ==
    /\ last = "KeyUp" /\ ui_pc = "callback" /\ "rx" \in held
    /\ offered # NoUpdate /\ c_focus = offered.focus
    /\ awake_cb = "spent" /\ ~awake /\ napplied > 0 /\ queue # <<>>

\* The actions the node of a widget advertises beyond Click, which it
\* carries when the widget's trigger holds Release.
AdvertisedActions(w) == MakeNodeActions(FirstTry(w.kind))
\* C39 (as claimed): a request for an action that the widget's node does not
\* advertise leaves the widget as it was.
C39_OnlyAdvertisedActionsMutate ==
    (areq # NoRequest /\ areq.action \notin AdvertisedActions(tw_before) \cup {"Click"})
       => tw = tw_before

\* C40 (as claimed): a SetValue request with a numeric payload, addressed to
\* a range widget whose make_node advertises SetValue, sets the widget's
\* value to the payload.
C40_AdvertisedSetValueHonoured ==
    (/\ Applied("SetValue", "NumericValue")
     /\ IsRangeWidget(tw_before)
     /\ "SetValue" \in MakeNodeActions(tw_before.kind))
       => tw.val = areq.data.n

====
